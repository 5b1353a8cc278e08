--------------------------- MODULE GuidedSessions ---------------------------
(***************************************************************************)
(* Oracle and tarot sessions: the services, the repositories they write    *)
(* through, and the designs that their recommendations link.               *)
(*                                                                         *)
(* A session is cast at once (oracle) or drawn slot by slot and revealed   *)
(* (tarot), then recommended three designs, then saved.  Every write is    *)
(* conditional on stateRevision, so a write that read the same revision is *)
(* one step; the reads of the service before it are steps of their own     *)
(* where their result decides what a retry is answered.  A request that is *)
(* refused changes nothing and is left out.                                *)
(***************************************************************************)
EXTENDS Integers, Sequences, FiniteSets, SequencesExt

CONSTANTS
  Session,
  Continued,    \* bound: the sessions that are used after their creation
  Client,       \* calls in flight at once
  Operation,    \* operationId of creations, selections and recommendations
  Fingerprint,  \* of the durable fields of an oracle creation
  Position,     \* displayedPosition of a face-down card
  Slots,        \* how many cards the spread takes
  Design,
  Trio,         \* the sets of designs that a catalogue can lead to
  Question,     \* questions that a tarot caller asks to be saved
  None

ASSUME GuidedAssumption ==
  /\ Continued \subseteq Session
  /\ Slots \in Nat \ {0}
  /\ Trio \subseteq (SUBSET Design) \ {{}}
  /\ None \notin Operation \cup Fingerprint \cup Question \cup Design
  \* the operations, and the results, of creations and selections are apart
  /\ Operation \cap (Session \X Operation) = {}
  /\ Session \cap (Session \X (1..Slots)) = {}

VARIABLES
  sessions,   \* oracle_sessions and tarot_sessions
  design,     \* whether each design exists and is not deleted
  call,       \* what each call in flight remembers
  told,       \* <<operation, result>> that callers of create and select got
  answered    \* what callers of recommendations got

guidedVars == <<sessions, design, call, told, answered>>

Idle == [phase |-> "idle"]

NoSession ==
  [status |-> "ABSENT", revision |-> 0, operation |-> None, fingerprint |-> None,
   selections |-> <<>>, links |-> {}, tag |-> None, selected |-> None]

IsOracle(s) == sessions[s].operation # None

Selection == [operation : Operation, position : Position]

Calls ==
  {Idle}
    \cup [phase : {"creating"}, operation : Operation, fingerprint : Fingerprint]
    \cup [phase : {"selecting"}, session : Session, revision : 1..(Slots + 1),
          selection : Selection]
    \cup [phase : {"generating", "counted"}, session : Session, revision : 1..(Slots + 2),
          tag : Operation \cup Question \cup {None}, links : Trio, made : SUBSET Design]

\* What mapOracleSession and mapTarotSession demand of a row, which is a
\* DATA_INTEGRITY_ERROR for every later request otherwise.
RowIsSound(row) ==
  LET picked == row.selections IN
  /\ row.status \in {"ABSENT", "CAST", "DRAWING", "DRAWN", "RECOMMENDED", "SAVED"}
  /\ row.revision \in 0..(Slots + 4)
  /\ picked \in Seq(Selection) /\ Len(picked) <= Slots
  /\ \A i, j \in DOMAIN picked : i # j =>
       /\ picked[i].operation # picked[j].operation
       /\ picked[i].position # picked[j].position
  /\ row.operation = None /\ row.status \notin {"ABSENT", "DRAWING"} => Len(picked) = Slots
  /\ row.links \in Trio \cup {{}}
  /\ row.links # {} <=> row.status \in {"RECOMMENDED", "SAVED"}
  /\ row.selected \in row.links \cup {None}
  /\ row.selected # None => row.status = "SAVED"

GuidedTypeOK ==
  /\ DOMAIN sessions = Session
  /\ \A s \in Session : RowIsSound(sessions[s])
  /\ design \in [Design -> {"ABSENT", "LIVE", "DELETED"}]
  /\ call \in [Client -> Calls]

GuidedInit ==
  /\ sessions = [s \in Session |-> NoSession]
  /\ design = [d \in Design |-> "ABSENT"]
  /\ call = [c \in Client |-> Idle]
  /\ told = {}
  /\ answered = {}

Enter(c, state) == call' = [call EXCEPT ![c] = state]

\* Every response shows the linked designs, which are read one by one.
Readable(s) == \A d \in sessions[s].links : design[d] = "LIVE"

-----------------------------------------------------------------------------
(* Creation *)

\* create, tarot: a new deck each time.
CreateTarot(s) ==
  /\ sessions[s].status = "ABSENT"
  /\ sessions' = [sessions EXCEPT ![s].status = "DRAWING", ![s].revision = 1]
  /\ UNCHANGED <<design, call, told, answered>>

CastBy(o) == {s \in Session : sessions[s].operation = o}

Tell(result) == told' = told \cup {result}

\* What a repeated oracle creation is answered: its session, if the durable
\* fields are those of the original.
TellCast(o, f) ==
  told' = told \cup
    {<<o, s>> : s \in {s \in CastBy(o) : sessions[s].fingerprint = f /\ Readable(s)}}

\* create, oracle: only a new operation id consumes entropy; a session that
\* went on is refused here.
StartCast(c, o, f) ==
  /\ call[c] = Idle
  /\ \A s \in CastBy(o) : sessions[s].status = "CAST"
  /\ IF CastBy(o) # {}
     THEN TellCast(o, f) /\ UNCHANGED call
     ELSE /\ Enter(c, [phase |-> "creating", operation |-> o, fingerprint |-> f])
          /\ UNCHANGED told
  /\ UNCHANGED <<sessions, design, answered>>

\* Mutation: the creation relies on the read of the service.
CastAnyway(c, s) ==
  LET o == call[c].operation IN
  /\ call[c].phase = "creating"
  /\ sessions[s].status = "ABSENT"
  /\ sessions' = [sessions EXCEPT ![s] =
       [NoSession EXCEPT !.status = "CAST", !.revision = 1,
                         !.operation = o, !.fingerprint = call[c].fingerprint]]
  /\ Tell(<<o, s>>)
  /\ Enter(c, Idle)
  /\ UNCHANGED <<design, answered>>

\* createOrGet: the unique index on (owner, operation) decides between casts.
FinishCast(c, s) ==
  LET o == call[c].operation
      f == call[c].fingerprint IN
  /\ call[c].phase = "creating"
  /\ IF CastBy(o) # {}
     THEN TellCast(o, f) /\ UNCHANGED sessions
     ELSE /\ sessions[s].status = "ABSENT"
          /\ sessions' = [sessions EXCEPT ![s] =
               [NoSession EXCEPT !.status = "CAST", !.revision = 1,
                                 !.operation = o, !.fingerprint = f]]
          /\ Tell(<<o, s>>)
  /\ Enter(c, Idle)
  /\ UNCHANGED <<design, answered>>

-----------------------------------------------------------------------------
(* Tarot draw *)

\* The selections that an operation id has led to, and how callers are told.
Accepted(s, o) == {i \in DOMAIN sessions[s].selections : sessions[s].selections[i].operation = o}

TellSelection(s, pick) ==
  told' = told \cup
    {<<<<s, pick.operation>>, <<s, i>>>> :
       i \in {i \in Accepted(s, pick.operation) :
                sessions[s].selections[i] = pick /\ Readable(s)}}

\* select and selectPosition: an accepted operation is answered; a new one
\* takes the next slot and a position that is still free.
StartSelect(c, s, pick) ==
  LET picked == sessions[s].selections IN
  /\ call[c] = Idle
  /\ ~IsOracle(s)
  /\ IF Accepted(s, pick.operation) # {}
     THEN TellSelection(s, pick) /\ UNCHANGED call
     ELSE /\ sessions[s].status = "DRAWING"
          /\ Len(picked) < Slots
          /\ \A i \in DOMAIN picked : picked[i].position # pick.position
          /\ Enter(c, [phase |-> "selecting", session |-> s,
                       revision |-> sessions[s].revision, selection |-> pick])
          /\ UNCHANGED told
  /\ UNCHANGED <<sessions, design, answered>>

\* Mutation: the draw is written back without its condition on the revision.
SelectWithoutRevision(c) ==
  LET s == call[c].session
      pick == call[c].selection
      before == call[c].revision - 1 IN
  /\ call[c].phase = "selecting"
  /\ sessions[s].status = "DRAWING"
  /\ sessions' = [sessions EXCEPT
       ![s].selections = Append(SubSeq(@, 1, before), pick), ![s].revision = before + 2]
  /\ Tell(<<<<s, pick.operation>>, <<s, before + 1>>>>)
  /\ Enter(c, Idle)
  /\ UNCHANGED <<design, answered>>

\* updateDraw: the write is conditional on the revision that was read, and a
\* loser looks whether its own operation is what the winner accepted.
FinishSelect(c) ==
  LET s == call[c].session
      pick == call[c].selection IN
  /\ call[c].phase = "selecting"
  /\ IF sessions[s].revision = call[c].revision
     THEN /\ sessions' = [sessions EXCEPT ![s].selections = Append(@, pick),
                                          ![s].revision = @ + 1]
          /\ Tell(<<<<s, pick.operation>>, <<s, Len(sessions[s].selections) + 1>>>>)
     ELSE TellSelection(s, pick) /\ UNCHANGED sessions
  /\ Enter(c, Idle)
  /\ UNCHANGED <<design, answered>>

\* reveal, once every slot is taken.
Reveal(s) ==
  /\ sessions[s].status = "DRAWING"
  /\ Len(sessions[s].selections) = Slots
  /\ sessions' = [sessions EXCEPT ![s].status = "DRAWN", ![s].revision = @ + 1]
  /\ UNCHANGED <<design, call, told, answered>>

-----------------------------------------------------------------------------
(* Recommendations *)

\* The operation id of an oracle request, the question of a tarot one.
Tags(s) == IF IsOracle(s) THEN Operation ELSE Question \cup {None}

Recommended(s) == sessions[s].status \in {"RECOMMENDED", "SAVED"}

Answer(s, tag) ==
  answered' = IF Readable(s)
              THEN answered \cup {[session |-> s, tag |-> tag, links |-> sessions[s].links]}
              ELSE answered

\* A session that was recommended already answers the oracle operation that
\* did it, and any tarot request that does not save another question.
ReplayRecommendations(c, s, tag) ==
  /\ call[c] = Idle
  /\ Recommended(s)
  /\ tag = sessions[s].tag \/ (~IsOracle(s) /\ tag = None)
  /\ Answer(s, tag)
  /\ UNCHANGED <<sessions, design, call, told>>

\* recommendations reads the catalogue, which decides the designs.
StartRecommendations(c, s, tag, links) ==
  /\ call[c] = Idle
  /\ sessions[s].status \in {"CAST", "DRAWN"}
  /\ Enter(c, [phase |-> "generating", session |-> s, revision |-> sessions[s].revision,
               tag |-> tag, links |-> links, made |-> {}])
  /\ UNCHANGED <<sessions, design, told, answered>>

\* generateFromCandidate: the id is derived from the content, so one that is
\* taken is the same design, unless that one was deleted.
GenerateDesign(c) ==
  /\ call[c].phase = "generating"
  /\ \E d \in call[c].links \ call[c].made :
       /\ design' = [design EXCEPT ![d] = IF @ = "ABSENT" THEN "LIVE" ELSE @]
       /\ IF design[d] = "DELETED" THEN Enter(c, Idle)
          ELSE call' = [call EXCEPT ![c].made = @ \cup {d}]
  /\ UNCHANGED <<sessions, told, answered>>

\* Oracle: the transaction of another call holds the session row.
RowIsLocked(s) ==
  /\ IsOracle(s)
  /\ \E b \in Client : call[b].phase = "counted" /\ call[b].session = s

\* Mutation: the tarot handler compares the links and not the question.
AnswerAnyQuestion(c) ==
  LET s == call[c].session IN
  /\ sessions[s].links = call[c].links
  /\ IF IsOracle(s) THEN sessions[s].tag = call[c].tag ELSE sessions[s].status = "RECOMMENDED"

\* Whether a call that finds the session recommended by another one is
\* answered with that: the same oracle operation, or the same tarot question
\* while the session is not saved.
IsReplay(c) ==
  LET s == call[c].session IN
  /\ sessions[s].links = call[c].links
  /\ sessions[s].tag = call[c].tag
  /\ IsOracle(s) \/ sessions[s].status = "RECOMMENDED"

\* A tarot snapshot may differ in its copy, then only a question is compared.
Overtaken(c) ==
  LET s == call[c].session IN
  /\ IF IsReplay(c)
     THEN \/ Answer(s, call[c].tag)
          \/ ~IsOracle(s) /\ call[c].tag = None /\ UNCHANGED answered
     ELSE UNCHANGED answered
  /\ Enter(c, Idle)
  /\ UNCHANGED <<sessions, design, told>>

\* saveRecommendations reads the session and counts the designs ...
CountDesigns(c) ==
  LET s == call[c].session IN
  /\ call[c].phase = "generating" /\ call[c].made = call[c].links
  /\ ~RowIsLocked(s)
  /\ IF Recommended(s) THEN Overtaken(c)
     ELSE /\ Enter(c, IF \A d \in call[c].links : design[d] = "LIVE"
                      THEN [call[c] EXCEPT !.phase = "counted"] ELSE Idle)
          /\ UNCHANGED <<sessions, design, told, answered>>

\* ... and links them if the revision is still the one it was asked for.
LinkDesigns(c) ==
  LET s == call[c].session IN
  /\ call[c].phase = "counted"
  /\ IF sessions[s].revision = call[c].revision
     THEN /\ sessions' = [sessions EXCEPT ![s].status = "RECOMMENDED", ![s].revision = @ + 1,
                                          ![s].tag = call[c].tag, ![s].links = call[c].links]
          /\ answered' = IF \A d \in call[c].links : design[d] = "LIVE"
                         THEN answered \cup {[session |-> s, tag |-> call[c].tag,
                                              links |-> call[c].links]}
                         ELSE answered
          /\ Enter(c, Idle)
          /\ UNCHANGED <<design, told>>
     ELSE Overtaken(c)

\* save and markSaved; a tarot session may be saved without a selection.
Save(s, d) ==
  /\ sessions[s].status = "RECOMMENDED"
  /\ ~RowIsLocked(s)
  /\ IF d = None THEN ~IsOracle(s) ELSE d \in sessions[s].links
  /\ sessions' = [sessions EXCEPT ![s].status = "SAVED", ![s].revision = @ + 1, ![s].selected = d]
  /\ UNCHANGED <<design, call, told, answered>>

-----------------------------------------------------------------------------

\* softDeleteDesign, which any owner of a design may do.
DeleteDesign(d) ==
  /\ design[d] = "LIVE"
  /\ design' = [design EXCEPT ![d] = "DELETED"]
  /\ UNCHANGED <<sessions, call, told, answered>>

\* A call fails, or its connection is lost, between its steps.
Abandon(c) ==
  /\ call[c] # Idle
  /\ Enter(c, Idle)
  /\ UNCHANGED <<sessions, design, told, answered>>

GuidedNext ==
  \/ \E s \in Session :
       \/ CreateTarot(s)
       \/ Reveal(s)
       \/ \E d \in Design \cup {None} : Save(s, d)
  \/ \E d \in Design : DeleteDesign(d)
  \/ \E c \in Client :
       \/ FinishSelect(c)
       \/ GenerateDesign(c)
       \/ CountDesigns(c)
       \/ LinkDesigns(c)
       \/ Abandon(c)
       \/ \E o \in Operation, f \in Fingerprint : StartCast(c, o, f)
       \/ \E s \in Session :
            \/ FinishCast(c, s)
       \/ \E s \in Continued :
            \/ \E pick \in Selection : StartSelect(c, s, pick)
            \/ \E tag \in Tags(s) :
                 \/ ReplayRecommendations(c, s, tag)
                 \/ \E links \in Trio : StartRecommendations(c, s, tag, links)

GuidedSpec == GuidedInit /\ [][GuidedNext]_guidedVars

-----------------------------------------------------------------------------
(* Properties *)

\* An oracle operation casts one session and a tarot operation takes one slot,
\* whatever races and retries there are; both stand, and whoever is answered
\* is answered with them.
Made ==
  {<<sessions[s].operation, s>> : s \in {s \in Session : IsOracle(s)}}
    \cup UNION {{<<<<s, sessions[s].selections[i].operation>>, <<s, i>>>> :
                   i \in DOMAIN sessions[s].selections} : s \in Session}

Creation == INSTANCE IdempotentCreation WITH
  Operation <- Operation \cup (Session \X Operation),
  Result <- Session \cup (Session \X (1..Slots)),
  made <- Made

OperationsTakeEffectOnce == Creation!CreationSpec

\* A change of a session moves its revision by one, and what was accepted
\* stands: selections only grow, and the links and the saved choice are final.
AcceptedStepsStand ==
  [][\A s \in Session :
       LET old == sessions[s]
           new == sessions'[s] IN
       /\ new # old => new.revision = old.revision + 1
       /\ IsPrefix(old.selections, new.selections)
       /\ old.links # {} => new.links = old.links /\ new.tag = old.tag
       /\ old.status = "SAVED" => new = old]_guidedVars

\* Whoever got recommendations got those that the session keeps, for the
\* operation it named, or with the question it asked to be saved.
AnswersAgree ==
  \A a \in answered :
    /\ a.links = sessions[a.session].links
    /\ a.tag = sessions[a.session].tag \/ (~IsOracle(a.session) /\ a.tag = None)

\* "Historical sessions remain readable."
SessionsStayReadable == \A s \in Session : Readable(s)

=============================================================================
