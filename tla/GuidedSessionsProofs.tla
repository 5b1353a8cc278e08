------------------------ MODULE GuidedSessionsProofs ------------------------
(***************************************************************************)
(* Theorems about GuidedSessions, for any sessions, calls at a time, spread *)
(* and catalogue.                                                          *)
(*                                                                         *)
(* GuidedInv is inductive.  A row's status determines its revision, every  *)
(* write moves both (Steps), and so a call that finds the revision it has  *)
(* read finds the row it has read (CallSound): the argument behind each    *)
(* conditional update of the repositories.                                 *)
(***************************************************************************)
EXTENDS GuidedSessions, SequenceTheorems, TLAPS

Rows ==
  [status : {"ABSENT", "CAST", "DRAWING", "DRAWN", "RECOMMENDED", "SAVED"}, revision : Nat,
   operation : Operation \cup {None}, fingerprint : Fingerprint \cup {None},
   selections : Seq(Selection), links : Trio \cup {{}},
   tag : Operation \cup Question \cup {None}, selected : Design \cup {None}]

\* How far a session has come, and how many writes that took.
OracleStage(row) ==
  /\ row.operation # None
  /\ row.selections = <<>>
  /\ \/ row.status = "CAST" /\ row.revision = 1
     \/ row.status = "RECOMMENDED" /\ row.revision = 2
     \/ row.status = "SAVED" /\ row.revision = 3

TarotStage(row) ==
  /\ row.operation = None
  /\ \/ row.status = "DRAWING" /\ row.revision = Len(row.selections) + 1
     \/ /\ Len(row.selections) = Slots
        /\ \/ row.status = "DRAWN" /\ row.revision = Slots + 2
           \/ row.status = "RECOMMENDED" /\ row.revision = Slots + 3
           \/ row.status = "SAVED" /\ row.revision = Slots + 4

RowSound(row) ==
  /\ row \in Rows
  /\ RowIsSound(row)
  /\ row = NoSession \/ OracleStage(row) \/ TarotStage(row)

\* What a call relies on: the row is the one it has read, or has moved on.
CallSound(rows, mem) ==
  /\ mem.phase = "selecting" =>
       LET row == rows[mem.session]
           picked == row.selections IN
       /\ row.revision >= mem.revision
       /\ row.revision = mem.revision =>
            /\ row.status = "DRAWING" /\ row.operation = None
            /\ Len(picked) < Slots
            /\ \A i \in DOMAIN picked :
                 /\ picked[i].operation # mem.selection.operation
                 /\ picked[i].position # mem.selection.position
  /\ mem.phase \in {"generating", "counted"} =>
       LET row == rows[mem.session] IN
       /\ row.revision >= mem.revision
       /\ row.revision = mem.revision => row.status \in {"CAST", "DRAWN"}

\* What a caller was answered is what the session keeps.
AnswerSound(rows, a) ==
  LET row == rows[a.session] IN
  /\ a.session \in Session
  /\ row.links # {} /\ a.links = row.links
  /\ a.tag = row.tag \/ (row.operation = None /\ a.tag = None)

CastsAreUnique ==
  \A s, t \in Session : IsOracle(s) /\ sessions[s].operation = sessions[t].operation => s = t

GuidedInv ==
  /\ sessions \in [Session -> Rows]
  /\ \A s \in Session : RowSound(sessions[s])
  /\ design \in [Design -> {"ABSENT", "LIVE", "DELETED"}]
  /\ call \in [Client -> Calls]
  /\ \A c \in Client : CallSound(sessions, call[c])
  /\ \A a \in answered : AnswerSound(sessions, a)
  /\ CastsAreUnique
-----------------------------------------------------------------------------
(* Rows *)

\* A sequence is a prefix of itself and of what is appended to it.
LEMMA PrefixAppend ==
  ASSUME NEW S, NEW s \in Seq(S), NEW e \in S
  PROVE  IsPrefix(s, s) /\ IsPrefix(s, Append(s, e))
  <1> DEFINE t == Append(s, e)
  <1>1. Len(s) \in Nat /\ t \in Seq(S) /\ Len(t) = Len(s) + 1
    OBVIOUS
  <1>2. \A i \in 1..Len(s) : t[i] = s[i] /\ s[i] \in S
    OBVIOUS
  <1> HIDE DEF t
  <1>3. /\ SubSeq(t, 1, Len(s)) \in Seq(S)
        /\ Len(SubSeq(t, 1, Len(s))) = Len(s)
        /\ \A i \in 1..Len(s) : SubSeq(t, 1, Len(s))[i] = t[i]
    <2>1. \A i \in 1..Len(s) : t[i] \in S
      BY <1>2
    <2>2. /\ SubSeq(t, 1, Len(s)) \in Seq(S)
          /\ Len(SubSeq(t, 1, Len(s))) = IF 1 <= Len(s) THEN Len(s) - 1 + 1 ELSE 0
          /\ \A i \in 1..(Len(s) - 1 + 1) : SubSeq(t, 1, Len(s))[i] = t[1 + i - 1]
      BY <1>1, <2>1, SubSeqProperties
    <2> QED
      BY <1>1, <2>2
  <1>4. SubSeq(t, 1, Len(s)) = s
    BY <1>1, <1>2, <1>3, SeqEqual
  <1>5. SubSeq(s, 1, Len(s)) = s
    BY SubSeqFull
  <1>6. Len(s) <= Len(t) /\ Len(s) <= Len(s)
    BY <1>1
  <1> QED
    BY <1>4, <1>5, <1>6 DEF IsPrefix, t

\* What a write may do to a row.
Steps(old, new) ==
  /\ RowSound(new)
  /\ new.revision = old.revision + 1
  /\ IsPrefix(old.selections, new.selections)
  /\ old.links # {} => new.links = old.links /\ new.tag = old.tag
  /\ old.status # "SAVED"
  /\ old # NoSession => new.operation = old.operation

TarotRow == [NoSession EXCEPT !.status = "DRAWING", !.revision = 1]

CastRow(o, f) ==
  [NoSession EXCEPT !.status = "CAST", !.revision = 1, !.operation = o, !.fingerprint = f]

DrawnRow(row, pick) ==
  [row EXCEPT !.selections = Append(row.selections, pick), !.revision = row.revision + 1]

RevealedRow(row) == [row EXCEPT !.status = "DRAWN", !.revision = row.revision + 1]

LinkedRow(row, tag, links) ==
  [row EXCEPT !.status = "RECOMMENDED", !.revision = row.revision + 1, !.tag = tag, !.links = links]

SavedRow(row, d) == [row EXCEPT !.status = "SAVED", !.revision = row.revision + 1, !.selected = d]

\* The row of a session that does not exist.
LEMMA NoSessionRow ==
  /\ NoSession \in Rows /\ RowSound(NoSession)
  /\ NoSession.status = "ABSENT" /\ NoSession.revision = 0 /\ NoSession.operation = None
  /\ NoSession.selections = <<>> /\ NoSession.links = {} /\ NoSession.tag = None
  /\ NoSession.selected = None
  <1>1. NoSession \in Rows
    BY DEF NoSession, Rows
  <1>2. RowIsSound(NoSession)
    BY GuidedAssumption DEF NoSession, RowIsSound
  <1> QED
    BY <1>1, <1>2 DEF RowSound, NoSession

\* Only a row that does not exist is absent, and it has done nothing.
LEMMA RowStages ==
  ASSUME NEW row, RowSound(row)
  PROVE  /\ row.status = "ABSENT" <=> row = NoSession
         /\ row.links # {} <=> row.status \in {"RECOMMENDED", "SAVED"}
         /\ row.status = "DRAWING" => TarotStage(row) /\ row # NoSession
         /\ row.status \in {"CAST", "DRAWN", "RECOMMENDED", "SAVED"} =>
              row # NoSession /\ (OracleStage(row) \/ TarotStage(row))
         /\ row.operation # None => row # NoSession
  BY NoSessionRow DEF RowSound, RowIsSound, OracleStage, TarotStage, NoSession

\* A tarot session starts empty.
LEMMA TarotRowSteps == TarotRow \in Rows /\ Steps(NoSession, TarotRow)
  <1>1. /\ TarotRow.status = "DRAWING" /\ TarotRow.revision = 1 /\ TarotRow.operation = None
        /\ TarotRow.selections = <<>> /\ TarotRow.links = {} /\ TarotRow.tag = None
        /\ TarotRow.selected = None
    BY DEF TarotRow, NoSession
  <1>2. TarotRow \in Rows
    BY NoSessionRow DEF TarotRow, Rows
  <1> HIDE DEF TarotRow
  <1>3. RowIsSound(TarotRow)
    BY <1>1, GuidedAssumption DEF RowIsSound
  <1>4. TarotStage(TarotRow)
    BY <1>1 DEF TarotStage
  <1>5. IsPrefix(NoSession.selections, TarotRow.selections)
    <2>1. IsPrefix(<<>>, <<>>)
      BY DEF IsPrefix
    <2> QED
      BY <2>1, <1>1, NoSessionRow
  <1> QED
    BY <1>1, <1>2, <1>3, <1>4, <1>5, NoSessionRow DEF Steps, RowSound

\* An oracle session starts cast.
LEMMA CastRowSteps ==
  ASSUME NEW o \in Operation, NEW f \in Fingerprint
  PROVE  /\ CastRow(o, f) \in Rows /\ Steps(NoSession, CastRow(o, f))
         /\ CastRow(o, f).operation = o /\ CastRow(o, f).fingerprint = f
  <1> DEFINE row == CastRow(o, f)
  <1>1. /\ row.status = "CAST" /\ row.revision = 1 /\ row.operation = o /\ row.fingerprint = f
        /\ row.selections = <<>> /\ row.links = {} /\ row.tag = None
        /\ row.selected = None
    BY DEF CastRow, NoSession
  <1>2. row \in Rows
    BY NoSessionRow DEF CastRow, Rows
  <1> HIDE DEF row
  <1>3. row.operation # None
    BY <1>1, GuidedAssumption
  <1>4. RowIsSound(row)
    BY <1>1, <1>3, GuidedAssumption DEF RowIsSound
  <1>5. OracleStage(row)
    BY <1>1, <1>3 DEF OracleStage
  <1>6. IsPrefix(NoSession.selections, row.selections)
    <2>1. IsPrefix(<<>>, <<>>)
      BY DEF IsPrefix
    <2> QED
      BY <2>1, <1>1, NoSessionRow
  <1>7. Steps(NoSession, row)
    BY <1>1, <1>2, <1>4, <1>5, <1>6, NoSessionRow DEF Steps, RowSound
  <1> QED
    BY <1>1, <1>2, <1>7 DEF row

\* A draw takes the next slot, with an operation and a position of its own.
LEMMA DrawnRowSteps ==
  ASSUME NEW row, RowSound(row), row.status = "DRAWING", NEW pick \in Selection,
         Len(row.selections) < Slots,
         \A i \in DOMAIN row.selections :
           /\ row.selections[i].operation # pick.operation
           /\ row.selections[i].position # pick.position
  PROVE  /\ DrawnRow(row, pick) \in Rows /\ Steps(row, DrawnRow(row, pick))
         /\ DrawnRow(row, pick).operation = row.operation
         /\ DrawnRow(row, pick).selections = Append(row.selections, pick)
  <1> DEFINE new == DrawnRow(row, pick)
             old == row.selections
             picked == Append(old, pick)
             up == row.revision + 1
  <1>1. /\ row \in Rows /\ old \in Seq(Selection) /\ row.revision \in Nat
        /\ TarotStage(row) /\ row # NoSession
    BY RowStages DEF RowSound, Rows
  <1>2. up \in Nat /\ up = Len(old) + 2 /\ row.operation = None
    BY <1>1 DEF TarotStage
  <1>3. /\ picked \in Seq(Selection) /\ Len(picked) = Len(old) + 1
        /\ \A i \in DOMAIN old : i \in DOMAIN picked /\ picked[i] = old[i]
        /\ picked[Len(old) + 1] = pick
        /\ \A i \in DOMAIN picked : i \in DOMAIN old \/ i = Len(old) + 1
    BY <1>1
  <1>4. IsPrefix(old, picked)
    BY <1>1, PrefixAppend
  <1> HIDE DEF up, picked
  <1>5. new = [row EXCEPT !.selections = picked, !.revision = up]
    BY DEF DrawnRow, up, picked
  <1>6. /\ new \in Rows
        /\ new.status = "DRAWING" /\ new.revision = up /\ new.operation = row.operation
        /\ new.selections = picked /\ new.links = row.links /\ new.tag = row.tag
        /\ new.selected = row.selected
    BY <1>1, <1>2, <1>3, <1>5 DEF Rows
  <1> HIDE DEF new
  <1>7. Len(old) \in Nat /\ Len(picked) <= Slots /\ new.revision \in 0..(Slots + 4)
    BY <1>1, <1>2, <1>3, <1>6, GuidedAssumption
  <1>8. \A i, j \in DOMAIN picked : i # j =>
          picked[i].operation # picked[j].operation /\ picked[i].position # picked[j].position
    <2>1. \A i, j \in DOMAIN old : i # j =>
            old[i].operation # old[j].operation /\ old[i].position # old[j].position
      BY DEF RowSound, RowIsSound
    <2> QED
      BY <1>3, <2>1
  <1>9. RowIsSound(new)
    <2>1. RowIsSound(row)
      BY DEF RowSound
    <2> QED
      BY <1>3, <1>6, <1>7, <1>8, <2>1 DEF RowIsSound
  <1>10. TarotStage(new)
    BY <1>2, <1>3, <1>6, <1>7 DEF TarotStage
  <1>11. Steps(row, new)
    <2>1. RowSound(new)
      BY <1>6, <1>9, <1>10 DEF RowSound
    <2> QED
      BY <1>4, <1>6, <2>1 DEF Steps, up
  <1> QED
    BY <1>6, <1>11 DEF new, picked

\* A write that only moves the session on from a stage.
LEMMA StageSteps ==
  ASSUME NEW row, RowSound(row), NEW new \in Rows,
         new.revision = row.revision + 1, new.operation = row.operation,
         new.selections = row.selections, row.status # "SAVED", row # NoSession,
         row.links # {} => new.links = row.links /\ new.tag = row.tag,
         RowIsSound(new), OracleStage(new) \/ TarotStage(new)
  PROVE  Steps(row, new)
  <1>1. IsPrefix(row.selections, new.selections)
    <2>1. row.selections \in Seq(Selection)
      BY DEF RowSound, Rows
    <2>2. SubSeq(row.selections, 1, Len(row.selections)) = row.selections
      BY <2>1, SubSeqFull
    <2>3. Len(row.selections) <= Len(row.selections)
      BY <2>1
    <2> QED
      BY <2>2, <2>3 DEF IsPrefix
  <1> QED
    BY <1>1 DEF Steps, RowSound

\* The cards are revealed once every slot is taken.
LEMMA RevealedRowSteps ==
  ASSUME NEW row, RowSound(row), row.status = "DRAWING", Len(row.selections) = Slots
  PROVE  /\ RevealedRow(row) \in Rows /\ Steps(row, RevealedRow(row))
         /\ RevealedRow(row).operation = row.operation
         /\ RevealedRow(row).selections = row.selections
  <1> DEFINE new == RevealedRow(row)
             up == row.revision + 1
  <1>1. /\ row \in Rows /\ row.revision \in Nat /\ TarotStage(row) /\ row # NoSession
        /\ RowIsSound(row)
    BY RowStages DEF RowSound, Rows
  <1>2. up \in Nat /\ up = Slots + 2 /\ row.operation = None
    BY <1>1, GuidedAssumption DEF TarotStage
  <1> HIDE DEF up
  <1>3. new = [row EXCEPT !.status = "DRAWN", !.revision = up]
    BY DEF RevealedRow, up
  <1>4. /\ new \in Rows
        /\ new.status = "DRAWN" /\ new.revision = up /\ new.operation = row.operation
        /\ new.selections = row.selections /\ new.links = row.links /\ new.tag = row.tag
        /\ new.selected = row.selected
    BY <1>1, <1>2, <1>3 DEF Rows
  <1> HIDE DEF new
  <1>5. up \in 0..(Slots + 4)
    BY <1>2, GuidedAssumption
  <1>6. RowIsSound(new)
    BY <1>1, <1>4, <1>5 DEF RowIsSound
  <1>7. TarotStage(new)
    BY <1>2, <1>4 DEF TarotStage
  <1>8. Steps(row, new)
    BY <1>1, <1>4, <1>6, <1>7, StageSteps DEF up
  <1> QED
    BY <1>4, <1>8 DEF new

\* Designs are linked to a session that has none.
LEMMA LinkedRowSteps ==
  ASSUME NEW row, RowSound(row), row.status \in {"CAST", "DRAWN"},
         NEW tag \in Operation \cup Question \cup {None}, NEW links \in Trio
  PROVE  /\ LinkedRow(row, tag, links) \in Rows /\ Steps(row, LinkedRow(row, tag, links))
         /\ LinkedRow(row, tag, links).operation = row.operation
         /\ LinkedRow(row, tag, links).selections = row.selections
         /\ LinkedRow(row, tag, links).links = links /\ LinkedRow(row, tag, links).tag = tag
  <1> DEFINE new == LinkedRow(row, tag, links)
             up == row.revision + 1
  <1>1. /\ row \in Rows /\ row.revision \in Nat /\ row # NoSession
        /\ OracleStage(row) \/ TarotStage(row)
        /\ row.links = {} /\ RowIsSound(row)
    BY RowStages DEF RowSound, Rows
  <1>2. /\ up \in Nat
        /\ OracleStage(row) => up = 2
        /\ TarotStage(row) => up = Slots + 3
    BY <1>1, GuidedAssumption DEF TarotStage, OracleStage
  <1> HIDE DEF up
  <1>3. new = [row EXCEPT !.status = "RECOMMENDED", !.revision = up, !.tag = tag, !.links = links]
    BY DEF LinkedRow, up
  <1>4. /\ new \in Rows
        /\ new.status = "RECOMMENDED" /\ new.revision = up /\ new.operation = row.operation
        /\ new.selections = row.selections /\ new.links = links /\ new.tag = tag
        /\ new.selected = row.selected
    BY <1>1, <1>2, <1>3, ZenonT(60) DEF Rows
  <1> HIDE DEF new
  <1>5. up \in 0..(Slots + 4)
    BY <1>1, <1>2, GuidedAssumption
  <1>6. row.selected = None
    BY <1>1 DEF RowIsSound
  <1>7. links # {}
    BY GuidedAssumption
  <1>8. RowIsSound(new)
    <2>1. new.operation = None => Len(new.selections) = Slots
      BY <1>1, <1>4 DEF OracleStage, TarotStage
    <2> QED
      BY <1>1, <1>4, <1>5, <1>6, <1>7, <2>1 DEF RowIsSound
  <1>9. OracleStage(new) \/ TarotStage(new)
    BY <1>1, <1>2, <1>4 DEF TarotStage, OracleStage
  <1>10. Steps(row, new)
    BY <1>1, <1>4, <1>8, <1>9, StageSteps DEF up
  <1> QED
    BY <1>4, <1>10 DEF new

\* A recommended session is saved with one of its designs, or none.
LEMMA SavedRowSteps ==
  ASSUME NEW row, RowSound(row), row.status = "RECOMMENDED", NEW d \in Design \cup {None},
         d = None \/ d \in row.links
  PROVE  /\ SavedRow(row, d) \in Rows /\ Steps(row, SavedRow(row, d))
         /\ SavedRow(row, d).operation = row.operation
         /\ SavedRow(row, d).selections = row.selections
  <1> DEFINE new == SavedRow(row, d)
             up == row.revision + 1
  <1>1. /\ row \in Rows /\ row.revision \in Nat /\ row # NoSession
        /\ OracleStage(row) \/ TarotStage(row)
        /\ row.links # {} /\ RowIsSound(row)
    BY RowStages DEF RowSound, Rows
  <1>2. /\ up \in Nat
        /\ OracleStage(row) => up = 3
        /\ TarotStage(row) => up = Slots + 4
    BY <1>1, GuidedAssumption DEF TarotStage, OracleStage
  <1> HIDE DEF up
  <1>3. new = [row EXCEPT !.status = "SAVED", !.revision = up, !.selected = d]
    BY DEF SavedRow, up
  <1>4. /\ new \in Rows
        /\ new.status = "SAVED" /\ new.revision = up /\ new.operation = row.operation
        /\ new.selections = row.selections /\ new.links = row.links /\ new.tag = row.tag
        /\ new.selected = d
    BY <1>1, <1>2, <1>3 DEF Rows
  <1> HIDE DEF new
  <1>5. up \in 0..(Slots + 4)
    BY <1>1, <1>2, GuidedAssumption
  <1>6. RowIsSound(new)
    <2>1. new.operation = None => Len(new.selections) = Slots
      BY <1>1, <1>4 DEF OracleStage, TarotStage
    <2> QED
      BY <1>1, <1>4, <1>5, <2>1 DEF RowIsSound
  <1>7. OracleStage(new) \/ TarotStage(new)
    BY <1>1, <1>2, <1>4 DEF TarotStage, OracleStage
  <1>8. Steps(row, new)
    BY <1>1, <1>4, <1>6, <1>7, StageSteps DEF up
  <1> QED
    BY <1>4, <1>8 DEF new

-----------------------------------------------------------------------------
(* Frames *)

\* A session is written: the row takes a step, and no other session was cast
\* for its operation.
Writes(s, new) ==
  /\ sessions' = [sessions EXCEPT ![s] = new]
  /\ Steps(sessions[s], new)
  /\ new.operation # sessions[s].operation => CastBy(new.operation) = {}

SessionsMove == UNCHANGED sessions \/ \E s \in Session, new \in Rows : Writes(s, new)

\* A step of a session, as AcceptedStepsStand demands it.
Stands(old, new) ==
  /\ new # old => new.revision = old.revision + 1
  /\ IsPrefix(old.selections, new.selections)
  /\ old.links # {} => new.links = old.links /\ new.tag = old.tag
  /\ old.status = "SAVED" => new = old

\* What a move of the sessions leaves of each row.
LEMMA MoveEffect ==
  ASSUME GuidedInv, SessionsMove
  PROVE  /\ sessions' \in [Session -> Rows]
         /\ \A s \in Session : /\ RowSound(sessions'[s])
                               /\ sessions'[s] = sessions[s] \/ Steps(sessions[s], sessions'[s])
                               /\ Stands(sessions[s], sessions'[s])
         /\ CastsAreUnique'
  <1> USE DEF GuidedInv
  <1>1. ASSUME NEW row, RowSound(row)
        PROVE  Stands(row, row)
    <2>1. row.selections \in Seq(Selection)
      BY <1>1 DEF RowSound, Rows
    <2>2. SubSeq(row.selections, 1, Len(row.selections)) = row.selections
      BY <2>1, SubSeqFull
    <2>3. Len(row.selections) <= Len(row.selections)
      BY <2>1
    <2> QED
      BY <2>2, <2>3 DEF Stands, IsPrefix
  <1>2. ASSUME NEW old, NEW new, Steps(old, new)
        PROVE  RowSound(new) /\ Stands(old, new)
    BY <1>2 DEF Steps, Stands
  <1>3. CASE UNCHANGED sessions
    BY <1>1, <1>3 DEF CastsAreUnique, IsOracle
  <1>4. ASSUME NEW s \in Session, NEW new \in Rows, Writes(s, new)
        PROVE  /\ sessions' \in [Session -> Rows]
               /\ sessions'[s] = new /\ \A t \in Session \ {s} : sessions'[t] = sessions[t]
               /\ Steps(sessions[s], new)
               /\ CastsAreUnique'
    <2>1. /\ sessions' \in [Session -> Rows] /\ sessions'[s] = new
          /\ \A t \in Session \ {s} : sessions'[t] = sessions[t]
      BY <1>4 DEF Writes
    <2>2. new.operation # sessions[s].operation =>
            \A t \in Session : sessions[t].operation # new.operation
      BY <1>4 DEF Writes, CastBy
    <2>3. CastsAreUnique'
      <3>1. CASE new.operation = sessions[s].operation
        <4>1. \A t \in Session : sessions'[t].operation = sessions[t].operation
          BY <2>1, <3>1
        <4> QED
          BY <4>1 DEF CastsAreUnique, IsOracle
      <3>2. CASE new.operation # sessions[s].operation
        BY <2>1, <2>2, <3>2 DEF CastsAreUnique, IsOracle
      <3> QED
        BY <3>1, <3>2
    <2> QED
      BY <1>4, <2>1, <2>3 DEF Writes
  <1>5. ASSUME NEW s \in Session, NEW new \in Rows, Writes(s, new)
        PROVE  \A t \in Session : /\ RowSound(sessions'[t])
                                  /\ sessions'[t] = sessions[t] \/ Steps(sessions[t], sessions'[t])
                                  /\ Stands(sessions[t], sessions'[t])
    <2> TAKE t \in Session
    <2>1. CASE t = s
      <3>1. sessions'[t] = new /\ Steps(sessions[t], new)
        BY <1>4, <1>5, <2>1
      <3> QED
        BY <1>2, <3>1
    <2>2. CASE t # s
      <3>1. sessions'[t] = sessions[t] /\ RowSound(sessions[t])
        BY <1>4, <1>5, <2>2
      <3> QED
        BY <1>1, <3>1
    <2> QED
      BY <2>1, <2>2
  <1> QED
    BY <1>3, <1>4, <1>5 DEF SessionsMove

\* A call that relies on a row may still do so after the row has moved.
LEMMA CallStaysSound ==
  ASSUME GuidedInv, SessionsMove
  PROVE  \A mem \in Calls : CallSound(sessions, mem) => CallSound(sessions', mem)
  <1> TAKE mem \in Calls
  <1> HAVE CallSound(sessions, mem)
  <1>1. CASE mem.phase \in {"selecting", "generating", "counted"}
    <2> DEFINE s == mem.session
    <2>1. s \in Session /\ mem.revision \in Nat
      BY <1>1, GuidedAssumption DEF Calls, Idle
    <2>2. sessions'[s] = sessions[s] \/ Steps(sessions[s], sessions'[s])
      BY <2>1, MoveEffect
    <2>3. CASE sessions'[s] = sessions[s]
      BY <2>3 DEF CallSound
    <2>4. CASE Steps(sessions[s], sessions'[s])
      <3>1. sessions[s].revision \in Nat /\ sessions[s].revision >= mem.revision
        BY <1>1, <2>1 DEF GuidedInv, Rows, CallSound
      <3>2. sessions'[s].revision = sessions[s].revision + 1
        BY <2>4 DEF Steps
      <3>3. sessions'[s].revision >= mem.revision /\ sessions'[s].revision # mem.revision
        BY <2>1, <3>1, <3>2
      <3> QED
        BY <3>3 DEF CallSound
    <2> QED
      BY <2>2, <2>3, <2>4
  <1>2. CASE mem.phase \notin {"selecting", "generating", "counted"}
    BY <1>2 DEF CallSound
  <1> QED
    BY <1>1, <1>2

\* What was answered stays what the session keeps.
LEMMA AnswerStaysSound ==
  ASSUME GuidedInv, SessionsMove, NEW a, AnswerSound(sessions, a)
  PROVE  AnswerSound(sessions', a)
  <1> DEFINE s == a.session
  <1>1. s \in Session /\ sessions[s].links # {}
    BY DEF AnswerSound
  <1>2. sessions[s] # NoSession
    BY <1>1, NoSessionRow
  <1>3. sessions'[s] = sessions[s] \/ Steps(sessions[s], sessions'[s])
    BY <1>1, MoveEffect
  <1>4. /\ sessions'[s].links = sessions[s].links /\ sessions'[s].tag = sessions[s].tag
        /\ sessions'[s].operation = sessions[s].operation
    BY <1>1, <1>2, <1>3 DEF Steps
  <1> QED
    BY <1>4 DEF AnswerSound

\* A step that moves the sessions properly, lets a call remember what it may
\* rely on and answers what the sessions keep preserves GuidedInv.
LEMMA GuidedFrame ==
  ASSUME GuidedInv, SessionsMove, design' \in [Design -> {"ABSENT", "LIVE", "DELETED"}],
         NEW mem \in Calls, CallSound(sessions', mem),
         UNCHANGED call \/ \E c \in Client : Enter(c, mem),
         \A a \in answered' \ answered : AnswerSound(sessions', a)
  PROVE  GuidedInv' /\ \A s \in Session : Stands(sessions[s], sessions'[s])
  <1>1. /\ call' \in [Client -> Calls]
        /\ \A c \in Client : call'[c] = call[c] \/ call'[c] = mem
    BY DEF Enter, GuidedInv
  <1>2. \A c \in Client : CallSound(sessions', call'[c])
    <2>1. \A c \in Client : call[c] \in Calls /\ CallSound(sessions, call[c])
      BY DEF GuidedInv
    <2> QED
      BY <1>1, <2>1, CallStaysSound
  <1>3. \A a \in answered' : AnswerSound(sessions', a)
    BY AnswerStaysSound DEF GuidedInv
  <1> QED
    BY <1>1, <1>2, <1>3, MoveEffect DEF GuidedInv

\* The fields of what a call remembers.
LEMMA CallFields ==
  ASSUME NEW mem \in Calls
  PROVE  /\ mem.phase \in {"idle", "creating", "selecting", "generating", "counted"}
         /\ mem.phase = "creating" => mem.operation \in Operation /\ mem.fingerprint \in Fingerprint
         /\ mem.phase = "selecting" =>
              mem.session \in Session /\ mem.selection \in Selection /\ mem.revision \in Nat
         /\ mem.phase \in {"generating", "counted"} =>
              /\ mem.session \in Session /\ mem.tag \in Operation \cup Question \cup {None}
              /\ mem.links \in Trio /\ mem.made \in SUBSET Design /\ mem.revision \in Nat
  BY GuidedAssumption DEF Calls, Idle

\* An idle call relies on nothing.
LEMMA IdleIsSound == Idle \in Calls /\ \A rows : CallSound(rows, Idle)
  BY DEF Calls, Idle, CallSound

-----------------------------------------------------------------------------
(* The steps *)

\* A step that preserves the invariant and what was accepted.
Kept == GuidedInv' /\ \A s \in Session : Stands(sessions[s], sessions'[s])

\* The creations and the selections of a step: none, so only the answer told
\* may be new.
MadeUntouched ==
  \A s \in Session : /\ sessions'[s].operation = sessions[s].operation
                     /\ sessions'[s].selections = sessions[s].selections

\* A tarot session is created where there is none.
LEMMA CreateTarotStep ==
  ASSUME GuidedInv, NEW s \in Session, CreateTarot(s)
  PROVE  Kept /\ MadeUntouched /\ UNCHANGED told
  <1>1. /\ sessions \in [Session -> Rows] /\ sessions[s] = NoSession
        /\ UNCHANGED <<design, call, told, answered>>
    BY RowStages DEF CreateTarot, GuidedInv
  <1>2. sessions' = [sessions EXCEPT ![s] = TarotRow]
    BY <1>1 DEF CreateTarot, TarotRow
  <1>3. TarotRow.operation = None /\ TarotRow.selections = <<>>
    BY DEF TarotRow, NoSession
  <1>4. Writes(s, TarotRow)
    BY <1>1, <1>2, <1>3, NoSessionRow, TarotRowSteps DEF Writes
  <1>5. Kept
    BY <1>1, <1>4, TarotRowSteps, IdleIsSound, GuidedFrame DEF SessionsMove, GuidedInv, Kept
  <1> QED
    BY <1>1, <1>2, <1>3, <1>5, NoSessionRow DEF MadeUntouched

\* The cards of a full spread are revealed.
LEMMA RevealStep ==
  ASSUME GuidedInv, NEW s \in Session, Reveal(s)
  PROVE  Kept /\ MadeUntouched /\ UNCHANGED told
  <1> DEFINE new == RevealedRow(sessions[s])
  <1>1. /\ sessions \in [Session -> Rows] /\ RowSound(sessions[s])
        /\ sessions[s].status = "DRAWING" /\ Len(sessions[s].selections) = Slots
        /\ UNCHANGED <<design, call, told, answered>>
    BY DEF Reveal, GuidedInv
  <1>2. sessions' = [sessions EXCEPT ![s] = new]
    BY <1>1 DEF Reveal, RevealedRow
  <1>3. /\ new \in Rows /\ Steps(sessions[s], new)
        /\ new.operation = sessions[s].operation /\ new.selections = sessions[s].selections
    BY <1>1, RevealedRowSteps
  <1> HIDE DEF new
  <1>4. Writes(s, new)
    BY <1>2, <1>3 DEF Writes
  <1>5. Kept
    BY <1>1, <1>3, <1>4, IdleIsSound, GuidedFrame DEF SessionsMove, GuidedInv, Kept
  <1> QED
    BY <1>1, <1>2, <1>3, <1>5 DEF MadeUntouched

\* A recommended session is saved.
LEMMA SaveStep ==
  ASSUME GuidedInv, NEW s \in Session, NEW d \in Design \cup {None}, Save(s, d)
  PROVE  Kept /\ MadeUntouched /\ UNCHANGED told
  <1> DEFINE new == SavedRow(sessions[s], d)
  <1>1. /\ sessions \in [Session -> Rows] /\ RowSound(sessions[s])
        /\ sessions[s].status = "RECOMMENDED" /\ (d = None \/ d \in sessions[s].links)
        /\ UNCHANGED <<design, call, told, answered>>
    BY DEF Save, GuidedInv
  <1>2. sessions' = [sessions EXCEPT ![s] = new]
    BY <1>1 DEF Save, SavedRow
  <1>3. /\ new \in Rows /\ Steps(sessions[s], new)
        /\ new.operation = sessions[s].operation /\ new.selections = sessions[s].selections
    BY <1>1, SavedRowSteps
  <1> HIDE DEF new
  <1>4. Writes(s, new)
    BY <1>2, <1>3 DEF Writes
  <1>5. Kept
    BY <1>1, <1>3, <1>4, IdleIsSound, GuidedFrame DEF SessionsMove, GuidedInv, Kept
  <1> QED
    BY <1>1, <1>2, <1>3, <1>5 DEF MadeUntouched

\* A step of a call that writes no session.
LEMMA NothingWritten ==
  ASSUME GuidedInv, UNCHANGED sessions, design' \in [Design -> {"ABSENT", "LIVE", "DELETED"}],
         NEW mem \in Calls, CallSound(sessions, mem),
         UNCHANGED call \/ \E c \in Client : Enter(c, mem),
         \A a \in answered' \ answered : AnswerSound(sessions, a)
  PROVE  Kept /\ MadeUntouched
  <1>1. SessionsMove /\ sessions' = sessions
    BY DEF SessionsMove
  <1>2. Kept
    BY <1>1, GuidedFrame DEF Kept
  <1> QED
    BY <1>1, <1>2 DEF MadeUntouched

\* A step of a call that changes no session and no design and answers nothing.
LEMMA OnlyTells ==
  ASSUME GuidedInv, UNCHANGED <<sessions, design, answered>>,
         UNCHANGED call \/ \E c \in Client : Enter(c, Idle)
  PROVE  Kept /\ MadeUntouched
  BY IdleIsSound, NothingWritten DEF GuidedInv

\* An oracle request is answered with its session, or goes on to cast one.
LEMMA StartCastStep ==
  ASSUME GuidedInv, NEW c \in Client, NEW o \in Operation, NEW f \in Fingerprint, StartCast(c, o, f)
  PROVE  Kept /\ MadeUntouched /\ (UNCHANGED told \/ TellCast(o, f))
  <1> DEFINE mem == [phase |-> "creating", operation |-> o, fingerprint |-> f]
  <1>1. mem \in Calls /\ CallSound(sessions, mem)
    BY DEF Calls, CallSound
  <1> HIDE DEF mem
  <1>2. /\ UNCHANGED <<sessions, design, answered>>
        /\ \/ TellCast(o, f) /\ UNCHANGED call
           \/ Enter(c, mem) /\ UNCHANGED told
    BY DEF StartCast, mem
  <1> QED
    BY <1>1, <1>2, NothingWritten DEF GuidedInv

\* A cast makes a session for an operation that has none, or tells the one
\* that it has.
LEMMA FinishCastStep ==
  ASSUME GuidedInv, NEW c \in Client, NEW s \in Session, FinishCast(c, s)
  PROVE  /\ Kept
         /\ \E o \in Operation, f \in Fingerprint :
              \/ MadeUntouched /\ TellCast(o, f)
              \/ /\ CastBy(o) = {} /\ sessions[s] = NoSession
                 /\ sessions' = [sessions EXCEPT ![s] = CastRow(o, f)]
                 /\ told' = told \cup {<<o, s>>}
  <1> DEFINE o == call[c].operation
             f == call[c].fingerprint
  <1>1. o \in Operation /\ f \in Fingerprint
    BY CallFields DEF FinishCast, GuidedInv
  <1>2. Enter(c, Idle) /\ UNCHANGED <<design, answered>>
    BY DEF FinishCast
  <1>3. CASE CastBy(o) # {}
    <2>1. TellCast(o, f) /\ UNCHANGED sessions
      BY <1>3 DEF FinishCast
    <2> QED
      BY <1>1, <1>2, <2>1, OnlyTells
  <1>4. CASE CastBy(o) = {}
    <2>1. sessions[s].status = "ABSENT" /\ told' = told \cup {<<o, s>>}
      BY <1>4 DEF FinishCast, Tell
    <2>2. sessions' = [sessions EXCEPT ![s] = CastRow(o, f)]
      BY <1>4 DEF FinishCast, CastRow
    <2>3. sessions[s] = NoSession
      BY <2>1, RowStages DEF GuidedInv
    <2> HIDE DEF o, f
    <2>4. Writes(s, CastRow(o, f))
      BY <1>1, <1>4, <2>2, <2>3, CastRowSteps DEF Writes
    <2>5. Kept
      <3>1. SessionsMove
        BY <1>1, <2>4, CastRowSteps DEF SessionsMove
      <3> QED
        BY <1>2, <3>1, IdleIsSound, GuidedFrame DEF GuidedInv, Kept
    <2> QED
      BY <1>1, <1>4, <2>1, <2>2, <2>3, <2>5
  <1> QED
    BY <1>3, <1>4

\* A selection is answered with its slot, or goes on to take the next one.
LEMMA StartSelectStep ==
  ASSUME GuidedInv, NEW c \in Client, NEW s \in Session, NEW pick \in Selection,
         StartSelect(c, s, pick)
  PROVE  Kept /\ MadeUntouched /\ (UNCHANGED told \/ TellSelection(s, pick))
  <1> DEFINE mem == [phase |-> "selecting", session |-> s, revision |-> sessions[s].revision,
                     selection |-> pick]
             picked == sessions[s].selections
  <1>1. /\ UNCHANGED <<sessions, design, answered>>
        /\ ~IsOracle(s)
    BY DEF StartSelect
  <1>2. CASE Accepted(s, pick.operation) # {}
    <2>1. TellSelection(s, pick) /\ UNCHANGED call
      BY <1>2 DEF StartSelect
    <2> QED
      BY <1>1, <2>1, OnlyTells
  <1>3. CASE Accepted(s, pick.operation) = {}
    <2>1. /\ sessions[s].status = "DRAWING" /\ Len(picked) < Slots
          /\ \A i \in DOMAIN picked : picked[i].position # pick.position
          /\ Enter(c, mem) /\ UNCHANGED told
      BY <1>3 DEF StartSelect
    <2>2. \A i \in DOMAIN picked : picked[i].operation # pick.operation
      BY <1>3 DEF Accepted
    <2>3. sessions[s] \in Rows /\ RowSound(sessions[s]) /\ TarotStage(sessions[s])
      BY <2>1, RowStages DEF GuidedInv
    <2>4. picked \in Seq(Selection) /\ sessions[s].revision = Len(picked) + 1
          /\ sessions[s].operation = None
      BY <2>1, <2>3 DEF TarotStage, Rows
    <2>5. Len(picked) \in Nat
      BY <2>4
    <2>6. sessions[s].revision \in 1..(Slots + 1) /\ sessions[s].revision >= sessions[s].revision
      BY <2>1, <2>4, <2>5, GuidedAssumption
    <2>7. mem \in Calls
      BY <2>6 DEF Calls
    <2>8. /\ mem.phase = "selecting" /\ mem.session = s /\ mem.selection = pick
          /\ mem.revision = sessions[s].revision
      OBVIOUS
    <2> HIDE DEF mem
    <2>9. CallSound(sessions, mem)
      BY <2>1, <2>2, <2>4, <2>6, <2>8 DEF CallSound
    <2> QED
      BY <1>1, <2>1, <2>7, <2>9, NothingWritten DEF GuidedInv
  <1> QED
    BY <1>2, <1>3

\* A draw that finds the revision it has read takes the next slot; another
\* one tells what its operation has led to.
LEMMA FinishSelectStep ==
  ASSUME GuidedInv, NEW c \in Client, FinishSelect(c)
  PROVE  /\ Kept
         /\ \E s \in Session, pick \in Selection :
              \/ MadeUntouched /\ TellSelection(s, pick)
              \/ /\ sessions[s].operation = None
                 /\ Accepted(s, pick.operation) = {}
                 /\ Len(sessions[s].selections) < Slots
                 /\ sessions' = [sessions EXCEPT ![s] = DrawnRow(sessions[s], pick)]
                 /\ told' = told \cup {<<<<s, pick.operation>>, <<s, Len(sessions[s].selections) + 1>>>>}
  <1> DEFINE s == call[c].session
             pick == call[c].selection
  <1>1. call[c] \in Calls /\ CallSound(sessions, call[c]) /\ call[c].phase = "selecting"
    BY DEF FinishSelect, GuidedInv
  <1>2. s \in Session /\ pick \in Selection
    BY <1>1, CallFields
  <1>3. Enter(c, Idle) /\ UNCHANGED <<design, answered>>
    BY DEF FinishSelect
  <1>4. CASE sessions[s].revision # call[c].revision
    <2>1. TellSelection(s, pick) /\ UNCHANGED sessions
      BY <1>4 DEF FinishSelect
    <2> QED
      BY <1>2, <1>3, <2>1, OnlyTells
  <1>5. CASE sessions[s].revision = call[c].revision
    <2> DEFINE new == DrawnRow(sessions[s], pick)
    <2>1. /\ sessions[s].status = "DRAWING" /\ sessions[s].operation = None
          /\ Len(sessions[s].selections) < Slots
          /\ \A i \in DOMAIN sessions[s].selections :
               /\ sessions[s].selections[i].operation # pick.operation
               /\ sessions[s].selections[i].position # pick.position
      BY <1>1, <1>5 DEF CallSound
    <2>2. Accepted(s, pick.operation) = {}
      BY <2>1 DEF Accepted
    <2>3. /\ sessions' = [sessions EXCEPT ![s].selections = Append(@, pick), ![s].revision = @ + 1]
          /\ told' = told \cup {<<<<s, pick.operation>>, <<s, Len(sessions[s].selections) + 1>>>>}
      BY <1>5 DEF FinishSelect, Tell
    <2> HIDE DEF s, pick
    <2>4. sessions' = [sessions EXCEPT ![s] = new]
      BY <1>2, <2>3 DEF DrawnRow, GuidedInv
    <2>5. new \in Rows /\ Steps(sessions[s], new) /\ new.operation = sessions[s].operation
      BY <1>2, <2>1, DrawnRowSteps DEF GuidedInv
    <2>6. Writes(s, new)
      <3> HIDE DEF new
      <3> QED
        BY <2>4, <2>5 DEF Writes
    <2>7. SessionsMove
      BY <1>2, <2>5, <2>6 DEF SessionsMove
    <2>8. Kept
      BY <1>3, <2>7, IdleIsSound, GuidedFrame DEF GuidedInv, Kept
    <2> QED
      BY <1>2, <2>1, <2>2, <2>3, <2>4, <2>8
  <1> QED
    BY <1>4, <1>5

\* An answer that shows the links a session has, for its tag, is sound.
LEMMA AnswerIsSound ==
  ASSUME GuidedInv, NEW s \in Session, sessions[s].links # {}, NEW tag,
         tag = sessions[s].tag \/ (~IsOracle(s) /\ tag = None),
         Answer(s, tag) \/ UNCHANGED answered
  PROVE  \A a \in answered' \ answered : AnswerSound(sessions, a)
  <1> DEFINE shown == [session |-> s, tag |-> tag, links |-> sessions[s].links]
  <1>1. answered' \subseteq answered \cup {shown}
    BY DEF Answer
  <1>2. shown.session = s /\ shown.tag = tag /\ shown.links = sessions[s].links
    OBVIOUS
  <1> HIDE DEF shown
  <1>3. AnswerSound(sessions, shown)
    BY <1>2 DEF AnswerSound, IsOracle
  <1> QED
    BY <1>1, <1>3

\* A repeated request for recommendations is answered with the ones there are.
LEMMA ReplayStep ==
  ASSUME GuidedInv, NEW c \in Client, NEW s \in Session, NEW tag,
         ReplayRecommendations(c, s, tag)
  PROVE  Kept /\ MadeUntouched /\ UNCHANGED told
  <1>1. sessions[s].links # {}
    BY RowStages DEF ReplayRecommendations, Recommended, GuidedInv
  <1>2. \A a \in answered' \ answered : AnswerSound(sessions, a)
    BY <1>1, AnswerIsSound DEF ReplayRecommendations
  <1> QED
    BY <1>2, IdleIsSound, NothingWritten DEF ReplayRecommendations, GuidedInv

\* A request for recommendations remembers the revision it starts from.
LEMMA StartRecommendationsStep ==
  ASSUME GuidedInv, NEW c \in Client, NEW s \in Session, NEW tag \in Tags(s), NEW links \in Trio,
         StartRecommendations(c, s, tag, links)
  PROVE  Kept /\ MadeUntouched /\ UNCHANGED told
  <1> DEFINE mem == [phase |-> "generating", session |-> s, revision |-> sessions[s].revision,
                     tag |-> tag, links |-> links, made |-> {}]
  <1>1. /\ sessions[s].status \in {"CAST", "DRAWN"} /\ Enter(c, mem)
        /\ UNCHANGED <<sessions, design, told, answered>>
    BY DEF StartRecommendations
  <1>2. OracleStage(sessions[s]) \/ TarotStage(sessions[s])
    BY <1>1, RowStages DEF GuidedInv
  <1>3. sessions[s].revision \in 1..(Slots + 2) /\ sessions[s].revision >= sessions[s].revision
    BY <1>1, <1>2, GuidedAssumption DEF OracleStage, TarotStage
  <1>4. tag \in Operation \cup Question \cup {None}
    BY DEF Tags
  <1>5. mem \in Calls
    BY <1>3, <1>4 DEF Calls
  <1>6. mem.phase = "generating" /\ mem.session = s /\ mem.revision = sessions[s].revision
    OBVIOUS
  <1> HIDE DEF mem
  <1>7. CallSound(sessions, mem)
    BY <1>1, <1>3, <1>6 DEF CallSound
  <1> QED
    BY <1>1, <1>5, <1>7, NothingWritten DEF GuidedInv

\* A design is made or found; one that was deleted ends the call.
LEMMA GenerateStep ==
  ASSUME GuidedInv, NEW c \in Client, GenerateDesign(c)
  PROVE  Kept /\ MadeUntouched /\ UNCHANGED told
  <1>1. /\ call[c] \in Calls /\ CallSound(sessions, call[c]) /\ call[c].phase = "generating"
        /\ UNCHANGED <<sessions, told, answered>>
    BY DEF GenerateDesign, GuidedInv
  <1>2. PICK d \in call[c].links \ call[c].made :
          /\ design' = [design EXCEPT ![d] = IF @ = "ABSENT" THEN "LIVE" ELSE @]
          /\ IF design[d] = "DELETED" THEN Enter(c, Idle)
             ELSE call' = [call EXCEPT ![c].made = @ \cup {d}]
    BY DEF GenerateDesign
  <1>3. d \in Design
    BY <1>1, CallFields, GuidedAssumption
  <1>4. design' \in [Design -> {"ABSENT", "LIVE", "DELETED"}]
    BY <1>2, <1>3 DEF GuidedInv
  <1>5. CASE design[d] = "DELETED"
    BY <1>1, <1>2, <1>4, <1>5, IdleIsSound, NothingWritten
  <1>6. CASE design[d] # "DELETED"
    <2> DEFINE made == call[c].made \cup {d}
               mem == [call[c] EXCEPT !.made = made]
    <2>1. made \in SUBSET Design
      BY <1>1, <1>3, CallFields
    <2>2. call' = [call EXCEPT ![c] = mem]
      BY <1>2, <1>6 DEF GuidedInv
    <2> HIDE DEF made
    <2>3. call[c] \in [phase : {"generating", "counted"}, session : Session, revision : 1..(Slots + 2),
          tag : Operation \cup Question \cup {None}, links : Trio, made : SUBSET Design]
      BY <1>1 DEF Calls, Idle
    <2>4. /\ mem \in Calls
          /\ mem.phase = "generating" /\ mem.session = call[c].session
          /\ mem.revision = call[c].revision
      BY <1>1, <2>1, <2>3 DEF Calls
    <2> HIDE DEF mem
    <2>5. CallSound(sessions, mem)
      BY <1>1, <2>4 DEF CallSound
    <2>6. Enter(c, mem)
      BY <2>2 DEF Enter
    <2> QED
      BY <1>1, <1>4, <2>4, <2>5, <2>6, NothingWritten
  <1> QED
    BY <1>5, <1>6

\* A call that finds the session moved on is answered if that was its own
\* operation or question.
LEMMA OvertakenStep ==
  ASSUME GuidedInv, NEW c \in Client, call[c].phase \in {"generating", "counted"}, Overtaken(c)
  PROVE  Kept /\ MadeUntouched /\ UNCHANGED told
  <1> DEFINE s == call[c].session
             tag == call[c].tag
  <1>1. s \in Session /\ call[c].links \in Trio
    BY CallFields DEF GuidedInv
  <1>2. Enter(c, Idle) /\ UNCHANGED <<sessions, design, told>>
    BY DEF Overtaken
  <1>3. \A a \in answered' \ answered : AnswerSound(sessions, a)
    <2>1. CASE IsReplay(c)
      <3>1. sessions[s].links = call[c].links /\ sessions[s].tag = tag
        BY <2>1 DEF IsReplay
      <3>2. sessions[s].links # {}
        BY <1>1, <3>1, GuidedAssumption
      <3>3. Answer(s, tag) \/ UNCHANGED answered
        BY <2>1 DEF Overtaken
      <3> QED
        BY <1>1, <3>1, <3>2, <3>3, AnswerIsSound
    <2>2. CASE ~IsReplay(c)
      BY <2>2 DEF Overtaken
    <2> QED
      BY <2>1, <2>2
  <1> QED
    BY <1>2, <1>3, IdleIsSound, NothingWritten DEF GuidedInv

\* The designs are counted for a session that has none yet.
LEMMA CountDesignsStep ==
  ASSUME GuidedInv, NEW c \in Client, CountDesigns(c)
  PROVE  Kept /\ MadeUntouched /\ UNCHANGED told
  <1>1. call[c] \in Calls /\ CallSound(sessions, call[c]) /\ call[c].phase = "generating"
    BY DEF CountDesigns, GuidedInv
  <1>2. CASE Recommended(call[c].session)
    BY <1>1, <1>2, OvertakenStep DEF CountDesigns
  <1>3. CASE ~Recommended(call[c].session)
    <2> DEFINE mem == [call[c] EXCEPT !.phase = "counted"]
    <2>1. /\ Enter(c, mem) \/ Enter(c, Idle)
          /\ UNCHANGED <<sessions, design, told, answered>>
      BY <1>3 DEF CountDesigns
    <2>2. call[c] \in [phase : {"generating", "counted"}, session : Session, revision : 1..(Slots + 2),
          tag : Operation \cup Question \cup {None}, links : Trio, made : SUBSET Design]
      BY <1>1 DEF Calls, Idle
    <2>3. /\ mem \in Calls
          /\ mem.phase = "counted" /\ mem.session = call[c].session
          /\ mem.revision = call[c].revision
      BY <2>2 DEF Calls
    <2> HIDE DEF mem
    <2>4. CallSound(sessions, mem)
      BY <1>1, <2>3 DEF CallSound
    <2>5. CASE Enter(c, mem)
      BY <2>1, <2>3, <2>4, <2>5, NothingWritten DEF GuidedInv
    <2>6. CASE Enter(c, Idle)
      BY <2>1, <2>6, OnlyTells
    <2> QED
      BY <2>1, <2>5, <2>6
  <1> QED
    BY <1>2, <1>3

\* The designs are linked if the session is where the call started.
LEMMA LinkDesignsStep ==
  ASSUME GuidedInv, NEW c \in Client, LinkDesigns(c)
  PROVE  Kept /\ MadeUntouched /\ UNCHANGED told
  <1> DEFINE s == call[c].session
             tag == call[c].tag
             links == call[c].links
             new == LinkedRow(sessions[s], tag, links)
             shown == [session |-> s, tag |-> tag, links |-> links]
  <1>1. call[c] \in Calls /\ CallSound(sessions, call[c]) /\ call[c].phase = "counted"
    BY DEF LinkDesigns, GuidedInv
  <1>2. s \in Session /\ tag \in Operation \cup Question \cup {None} /\ links \in Trio
    BY <1>1, CallFields
  <1>3. CASE sessions[s].revision # call[c].revision
    <2>1. Overtaken(c)
      BY <1>3 DEF LinkDesigns
    <2> QED
      BY <1>1, <2>1, OvertakenStep
  <1>4. CASE sessions[s].revision = call[c].revision
    <2>1. sessions[s].status \in {"CAST", "DRAWN"} /\ RowSound(sessions[s])
      BY <1>1, <1>2, <1>4 DEF CallSound, GuidedInv
    <2>2. sessions' = [sessions EXCEPT ![s].status = "RECOMMENDED", ![s].revision = @ + 1,
                                       ![s].tag = tag, ![s].links = links]
      BY <1>4 DEF LinkDesigns
    <2>3. /\ answered' \subseteq answered \cup {shown}
          /\ Enter(c, Idle) /\ UNCHANGED <<design, told>>
      BY <1>4 DEF LinkDesigns
    <2>4. shown.session = s /\ shown.tag = tag /\ shown.links = links
      OBVIOUS
    <2> HIDE DEF s, tag, links, shown
    <2>5. sessions' = [sessions EXCEPT ![s] = new]
      BY <1>2, <2>2 DEF LinkedRow, GuidedInv
    <2>6. /\ new \in Rows /\ Steps(sessions[s], new)
          /\ new.operation = sessions[s].operation /\ new.selections = sessions[s].selections
          /\ new.links = links /\ new.tag = tag
      BY <1>2, <2>1, LinkedRowSteps
    <2> HIDE DEF new
    <2>7. Writes(s, new)
      BY <2>5, <2>6 DEF Writes
    <2>8. AnswerSound(sessions', shown)
      <3>1. sessions'[s] = new
        BY <1>2, <2>5 DEF GuidedInv
      <3>2. links # {}
        BY <1>2, GuidedAssumption
      <3> QED
        BY <1>2, <2>4, <2>6, <3>1, <3>2 DEF AnswerSound
    <2>9. SessionsMove
      BY <1>2, <2>6, <2>7 DEF SessionsMove
    <2>10. Kept
      BY <2>3, <2>8, <2>9, IdleIsSound, GuidedFrame DEF GuidedInv, Kept
    <2>11. MadeUntouched
      BY <2>5, <2>6 DEF MadeUntouched, GuidedInv
    <2> QED
      BY <2>3, <2>10, <2>11
  <1> QED
    BY <1>3, <1>4

\* A design is deleted, or a call ends early.
LEMMA QuietStep ==
  ASSUME GuidedInv, (\E d \in Design : DeleteDesign(d)) \/ \E c \in Client : Abandon(c)
  PROVE  Kept /\ MadeUntouched /\ UNCHANGED told
  <1>1. ASSUME NEW d \in Design, DeleteDesign(d)
        PROVE  Kept /\ MadeUntouched /\ UNCHANGED told
    <2>1. design' \in [Design -> {"ABSENT", "LIVE", "DELETED"}]
      BY <1>1 DEF DeleteDesign, GuidedInv
    <2> QED
      BY <1>1, <2>1, IdleIsSound, NothingWritten DEF DeleteDesign
  <1>2. ASSUME NEW c \in Client, Abandon(c)
        PROVE  Kept /\ MadeUntouched /\ UNCHANGED told
    BY <1>2, OnlyTells DEF Abandon
  <1> QED
    BY <1>1, <1>2

-----------------------------------------------------------------------------
(* Idempotent creation *)

\* A caller is told one thing that there is, or nothing.
LEMMA TellsMade ==
  ASSUME MadeUntouched, NEW T, T \subseteq Made, \A m, n \in T : m = n, told' = told \cup T
  PROVE  [Creation!CreationNext]_<<Made, told>>
  <1>1. Made' = Made
    BY DEF Made, MadeUntouched, IsOracle
  <1>2. CASE T = {}
    BY <1>1, <1>2
  <1>3. CASE T # {}
    <2>1. PICK m \in T : T = {m}
      BY <1>3
    <2>2. Creation!Tell(m) /\ m \in Made
      BY <1>1, <2>1 DEF Creation!Tell
    <2> QED
      BY <2>2 DEF Creation!CreationNext
  <1> QED
    BY <1>2, <1>3

\* Nothing is made and nobody is told.
LEMMA SaysNothing ==
  ASSUME MadeUntouched, UNCHANGED told
  PROVE  [Creation!CreationNext]_<<Made, told>>
  BY DEF Made, MadeUntouched, IsOracle

\* All answers to an oracle creation are the session of the operation.
LEMMA CastIsTold ==
  ASSUME GuidedInv, MadeUntouched, NEW o \in Operation, NEW f, TellCast(o, f)
  PROVE  [Creation!CreationNext]_<<Made, told>>
  <1> DEFINE T == {<<o, s>> : s \in {s \in CastBy(o) : sessions[s].fingerprint = f /\ Readable(s)}}
  <1>1. \A s \in CastBy(o) : s \in Session /\ IsOracle(s) /\ sessions[s].operation = o
    BY GuidedAssumption DEF CastBy, IsOracle
  <1>2. T \subseteq Made
    BY <1>1 DEF Made
  <1>3. \A s, t \in CastBy(o) : s = t
    BY <1>1 DEF GuidedInv, CastsAreUnique
  <1>4. \A m, n \in T : m = n
    BY <1>3
  <1>5. told' = told \cup T
    BY DEF TellCast
  <1> HIDE DEF T
  <1> QED
    BY <1>2, <1>4, <1>5, TellsMade

\* All answers to a selection are the slot that its operation took.
LEMMA SelectionIsTold ==
  ASSUME GuidedInv, MadeUntouched, NEW s \in Session, NEW pick \in Selection, TellSelection(s, pick)
  PROVE  [Creation!CreationNext]_<<Made, told>>
  <1> DEFINE picked == sessions[s].selections
             T == {<<<<s, pick.operation>>, <<s, i>>>> :
                     i \in {i \in Accepted(s, pick.operation) : picked[i] = pick /\ Readable(s)}}
  <1>1. \A i \in Accepted(s, pick.operation) :
          i \in DOMAIN picked /\ picked[i].operation = pick.operation
    BY DEF Accepted
  <1>2. \A m \in T : \E i \in DOMAIN picked :
          picked[i].operation = pick.operation /\ m = <<<<s, picked[i].operation>>, <<s, i>>>>
    BY <1>1
  <1>3. T \subseteq Made
    <2> SUFFICES ASSUME NEW m \in T  PROVE m \in Made
      OBVIOUS
    <2>1. PICK i \in DOMAIN picked : m = <<<<s, picked[i].operation>>, <<s, i>>>>
      BY <1>2
    <2>2. m \in {<<<<s, picked[j].operation>>, <<s, j>>>> : j \in DOMAIN picked}
      BY <2>1
    <2> HIDE DEF T
    <2> QED
      BY <2>2 DEF Made
  <1>4. \A i, j \in DOMAIN picked : picked[i].operation = picked[j].operation => i = j
    BY DEF GuidedInv, RowSound, RowIsSound
  <1>5. \A m, n \in T : m = n
    BY <1>1, <1>4
  <1>6. told' = told \cup T
    BY DEF TellSelection
  <1> HIDE DEF T
  <1> QED
    BY <1>3, <1>5, <1>6, TellsMade

\* What is made: sessions for the operations of oracle creations, and slots
\* for those of selections.
LEMMA MadeMembers ==
  ASSUME NEW m
  PROVE  m \in Made <=>
           \/ \E s \in Session : IsOracle(s) /\ m = <<sessions[s].operation, s>>
           \/ \E s \in Session : \E i \in DOMAIN sessions[s].selections :
                m = <<<<s, sessions[s].selections[i].operation>>, <<s, i>>>>
  BY DEF Made

\* An oracle session is made once for its operation.
LEMMA CastIsMadeOnce ==
  ASSUME GuidedInv, NEW s \in Session, NEW o \in Operation, NEW f \in Fingerprint,
         CastBy(o) = {}, sessions[s] = NoSession,
         sessions' = [sessions EXCEPT ![s] = CastRow(o, f)],
         told' = told \cup {<<o, s>>}
  PROVE  [Creation!CreationNext]_<<Made, told>>
  <1>1. /\ sessions'[s].operation = o /\ sessions'[s].selections = <<>>
        /\ \A t \in Session \ {s} : sessions'[t] = sessions[t]
    BY DEF GuidedInv, CastRow, NoSession
  <1>2. sessions[s].operation = None /\ sessions[s].selections = <<>>
    BY NoSessionRow
  <1>3. o # None
    BY GuidedAssumption
  <1>4. Made' = Made \cup {<<o, s>>}
    BY <1>1, <1>2, <1>3 DEF Made, IsOracle
  <1>5. \A m \in Made : m[1] # o /\ m[2] # s
    <2> SUFFICES ASSUME NEW m \in Made  PROVE m[1] # o /\ m[2] # s
      OBVIOUS
    <2>1. ASSUME NEW t \in Session, IsOracle(t), m = <<sessions[t].operation, t>>
          PROVE  m[1] # o /\ m[2] # s
      BY <1>2, <2>1 DEF CastBy, IsOracle
    <2>2. ASSUME NEW t \in Session, NEW i \in DOMAIN sessions[t].selections,
                 m = <<<<t, sessions[t].selections[i].operation>>, <<t, i>>>>
          PROVE  m[1] # o /\ m[2] # s
      <3>1. sessions[t].selections \in Seq(Selection) /\ Len(sessions[t].selections) <= Slots
        BY DEF GuidedInv, RowSound, RowIsSound
      <3>2. sessions[t].selections[i].operation \in Operation /\ i \in 1..Slots
        <4>1. i \in 1..Len(sessions[t].selections) /\ Len(sessions[t].selections) \in Nat
          BY <2>2, <3>1
        <4>2. sessions[t].selections[i] \in Selection
          BY <3>1, <4>1
        <4> QED
          BY <3>1, <4>1, <4>2, GuidedAssumption DEF Selection
      <3> DEFINE key == <<t, sessions[t].selections[i].operation>>
                 slot == <<t, i>>
      <3>3. key \in Session \X Operation /\ slot \in Session \X (1..Slots)
        BY <3>2
      <3>4. m[1] = key /\ m[2] = slot
        BY <2>2
      <3> HIDE DEF key, slot
      <3> QED
        BY <3>3, <3>4, GuidedAssumption
    <2> QED
      BY <2>1, <2>2, MadeMembers
  <1>6. Creation!Make(o, s)
    BY <1>4, <1>5 DEF Creation!Make
  <1> QED
    BY <1>6 DEF Creation!CreationNext

\* A slot is taken once for the operation of a selection.
LEMMA SlotIsMadeOnce ==
  ASSUME GuidedInv, NEW s \in Session, NEW pick \in Selection,
         sessions[s].operation = None, Accepted(s, pick.operation) = {},
         Len(sessions[s].selections) < Slots,
         sessions' = [sessions EXCEPT ![s] = DrawnRow(sessions[s], pick)],
         told' = told \cup {<<<<s, pick.operation>>, <<s, Len(sessions[s].selections) + 1>>>>}
  PROVE  [Creation!CreationNext]_<<Made, told>>
  <1> DEFINE old == sessions[s].selections
             new == Append(old, pick)
             n == Len(old) + 1
             key == <<s, pick.operation>>
             slot == <<s, n>>
  <1>1. old \in Seq(Selection) /\ Len(old) \in Nat /\ n \in 1..Slots
    <2>1. old \in Seq(Selection)
      BY DEF GuidedInv, RowSound, RowIsSound
    <2> QED
      BY <2>1, GuidedAssumption
  <1>2. /\ sessions'[s].operation = None /\ sessions'[s].selections = new
        /\ \A t \in Session \ {s} : sessions'[t] = sessions[t]
    <2>1. sessions[s] \in Rows
      BY DEF GuidedInv
    <2>2. DrawnRow(sessions[s], pick).operation = None
      BY <2>1 DEF DrawnRow, Rows
    <2>3. DrawnRow(sessions[s], pick).selections = new
      BY <2>1 DEF DrawnRow, Rows
    <2> HIDE DEF new
    <2>4. /\ sessions'[s] = DrawnRow(sessions[s], pick)
          /\ \A t \in Session \ {s} : sessions'[t] = sessions[t]
      BY DEF GuidedInv
    <2> QED
      BY <2>2, <2>3, <2>4
  <1>3. /\ DOMAIN new = DOMAIN old \cup {n} /\ n \notin DOMAIN old
        /\ new[n] = pick /\ \A i \in DOMAIN old : new[i] = old[i]
    BY <1>1, SMTT(30)
  <1>4. \A i \in DOMAIN old : old[i].operation # pick.operation
    BY DEF Accepted
  <1> HIDE DEF new, n
  <1>5. Made' = Made \cup {<<key, slot>>}
    <2>1. \A m : m \in Made' <=>
           \/ \E t \in Session : sessions'[t].operation # None /\ m = <<sessions'[t].operation, t>>
           \/ \E t \in Session : \E i \in DOMAIN sessions'[t].selections :
                m = <<<<t, sessions'[t].selections[i].operation>>, <<t, i>>>>
      BY DEF Made, IsOracle
    <2>2. \A t \in Session : sessions'[t].operation = sessions[t].operation
      BY <1>2
    <2>3. ASSUME NEW m
          PROVE  m \in Made' <=> m \in Made \/ m = <<key, slot>>
      <3>1. ASSUME NEW t \in Session
            PROVE  (\E i \in DOMAIN sessions'[t].selections :
                      m = <<<<t, sessions'[t].selections[i].operation>>, <<t, i>>>>)
                   <=> \/ \E i \in DOMAIN sessions[t].selections :
                            m = <<<<t, sessions[t].selections[i].operation>>, <<t, i>>>>
                       \/ t = s /\ m = <<key, slot>>
        <4>1. CASE t # s
          BY <1>2, <4>1
        <4>2. CASE t = s
          <5>1. sessions'[t].selections = new /\ sessions[t].selections = old
            BY <1>2, <4>2
          <5> HIDE DEF old
          <5> QED
            BY <1>3, <4>2, <5>1
        <4> QED
          BY <4>1, <4>2
      <3>2. m \in Made <=>
           \/ \E t \in Session : sessions[t].operation # None /\ m = <<sessions[t].operation, t>>
           \/ \E t \in Session : \E i \in DOMAIN sessions[t].selections :
                m = <<<<t, sessions[t].selections[i].operation>>, <<t, i>>>>
        BY DEF Made, IsOracle
      <3> HIDE DEF key, slot
      <3> QED
        BY <2>1, <2>2, <3>1, <3>2
    <2> HIDE DEF key, slot
    <2> QED
      BY <2>3
  <1>6. key \in Session \X Operation /\ slot \in Session \X (1..Slots)
    BY <1>1 DEF Selection
  <1>7. \A m \in Made : m[1] # key /\ m[2] # slot
    <2> SUFFICES ASSUME NEW m \in Made  PROVE m[1] # key /\ m[2] # slot
      OBVIOUS
    <2>1. ASSUME NEW t \in Session, IsOracle(t), m = <<sessions[t].operation, t>>
          PROVE  m[1] # key /\ m[2] # slot
      <3>1. sessions[t].operation \in Operation
        BY <2>1 DEF GuidedInv, Rows, IsOracle
      <3>2. m[1] = sessions[t].operation /\ m[2] = t
        BY <2>1
      <3> HIDE DEF key, slot
      <3> QED
        BY <1>6, <3>1, <3>2, GuidedAssumption
    <2>2. ASSUME NEW t \in Session, NEW i \in DOMAIN sessions[t].selections,
                 m = <<<<t, sessions[t].selections[i].operation>>, <<t, i>>>>
          PROVE  m[1] # key /\ m[2] # slot
      <3>1. m[1] = <<t, sessions[t].selections[i].operation>> /\ m[2] = <<t, i>>
        BY <2>2
      <3>2. t = s => sessions[t].selections[i].operation # pick.operation /\ i # n
        BY <1>3, <1>4
      <3> QED
        BY <3>1, <3>2
    <2> QED
      BY <2>1, <2>2, MadeMembers
  <1>8. Creation!Make(key, slot)
    BY <1>5, <1>7 DEF Creation!Make, n
  <1> QED
    BY <1>6, <1>8 DEF Creation!CreationNext

-----------------------------------------------------------------------------
(* The theorems *)

\* No session and no call is sound.
LEMMA GuidedInitial == GuidedInit => GuidedInv
  <1> SUFFICES ASSUME GuidedInit  PROVE GuidedInv
    OBVIOUS
  <1>1. \A s \in Session : sessions[s] = NoSession
    BY DEF GuidedInit
  <1>2. sessions \in [Session -> Rows] /\ \A s \in Session : RowSound(sessions[s])
    BY <1>1, NoSessionRow DEF GuidedInit
  <1>3. CastsAreUnique
    BY <1>1, NoSessionRow DEF CastsAreUnique, IsOracle
  <1> QED
    BY <1>2, <1>3, IdleIsSound DEF GuidedInit, GuidedInv

\* Every step keeps the invariant and what was accepted, and is a creation, an
\* answer, or neither.
LEMMA GuidedStep ==
  ASSUME GuidedInv, [GuidedNext]_guidedVars
  PROVE  Kept /\ [Creation!CreationNext]_<<Made, told>>
  <1>1. CASE UNCHANGED guidedVars
    <2>1. Kept /\ MadeUntouched /\ UNCHANGED told
      BY <1>1, OnlyTells DEF guidedVars
    <2> QED
      BY <2>1, SaysNothing
  <1>2. ASSUME NEW s \in Session,
               CreateTarot(s) \/ Reveal(s) \/ \E d \in Design \cup {None} : Save(s, d)
        PROVE  Kept /\ [Creation!CreationNext]_<<Made, told>>
    BY <1>2, CreateTarotStep, RevealStep, SaveStep, SaysNothing
  <1>3. ASSUME (\E d \in Design : DeleteDesign(d)) \/ \E c \in Client : Abandon(c)
        PROVE  Kept /\ [Creation!CreationNext]_<<Made, told>>
    BY <1>3, QuietStep, SaysNothing
  <1>4. ASSUME NEW c \in Client, FinishSelect(c)
        PROVE  Kept /\ [Creation!CreationNext]_<<Made, told>>
    BY <1>4, FinishSelectStep, SelectionIsTold, SlotIsMadeOnce
  <1>5. ASSUME NEW c \in Client, GenerateDesign(c) \/ CountDesigns(c) \/ LinkDesigns(c)
        PROVE  Kept /\ [Creation!CreationNext]_<<Made, told>>
    BY <1>5, GenerateStep, CountDesignsStep, LinkDesignsStep, SaysNothing
  <1>6. ASSUME NEW c \in Client, NEW o \in Operation, NEW f \in Fingerprint, StartCast(c, o, f)
        PROVE  Kept /\ [Creation!CreationNext]_<<Made, told>>
    BY <1>6, StartCastStep, CastIsTold, SaysNothing
  <1>7. ASSUME NEW c \in Client, NEW s \in Session, FinishCast(c, s)
        PROVE  Kept /\ [Creation!CreationNext]_<<Made, told>>
    BY <1>7, FinishCastStep, CastIsTold, CastIsMadeOnce
  <1>8. ASSUME NEW c \in Client, NEW s \in Continued, NEW pick \in Selection, StartSelect(c, s, pick)
        PROVE  Kept /\ [Creation!CreationNext]_<<Made, told>>
    <2>1. s \in Session
      BY GuidedAssumption
    <2> QED
      BY <1>8, <2>1, StartSelectStep, SelectionIsTold, SaysNothing
  <1>9. ASSUME NEW c \in Client, NEW s \in Continued, NEW tag \in Tags(s),
               \/ ReplayRecommendations(c, s, tag)
               \/ \E links \in Trio : StartRecommendations(c, s, tag, links)
        PROVE  Kept /\ [Creation!CreationNext]_<<Made, told>>
    <2>1. s \in Session
      BY GuidedAssumption
    <2> QED
      BY <1>9, <2>1, ReplayStep, StartRecommendationsStep, SaysNothing
  <1> QED
    BY <1>1, <1>2, <1>3, <1>4, <1>5, <1>6, <1>7, <1>8, <1>9 DEF GuidedNext

\* Sessions, calls and answers satisfy GuidedInv, whatever the calls
\* interleave.
THEOREM GuidedInvariant == GuidedSpec => []GuidedInv
  <1>1. GuidedInit => GuidedInv
    BY GuidedInitial
  <1>2. GuidedInv /\ [GuidedNext]_guidedVars => GuidedInv'
    BY GuidedStep DEF Kept
  <1> QED
    BY <1>1, <1>2, PTL DEF GuidedSpec

\* No interleaving of writes leaves a row that mapOracleSession or
\* mapTarotSession would refuse with DATA_INTEGRITY_ERROR.
THEOREM RowsStaySound == GuidedSpec => []GuidedTypeOK
  <1>1. GuidedInv => GuidedTypeOK
    BY DEF GuidedInv, GuidedTypeOK, RowSound
  <1> QED
    BY <1>1, GuidedInvariant, PTL

\* Every answer to a request for recommendations shows the designs that the
\* session keeps, for the operation or with the question the caller named.
THEOREM AnswersAgreeAlways == GuidedSpec => []AnswersAgree
  <1>1. GuidedInv => AnswersAgree
    BY DEF GuidedInv, AnswerSound, AnswersAgree, IsOracle
  <1> QED
    BY <1>1, GuidedInvariant, PTL

\* A change of a session moves its revision by one, and selections, linked
\* designs and the saved choice are final once they are accepted.
THEOREM AcceptedStepsStandAlways == GuidedSpec => AcceptedStepsStand
  <1> DEFINE Accepts ==
        \A s \in Session :
          LET old == sessions[s]
              new == sessions'[s] IN
          /\ new # old => new.revision = old.revision + 1
          /\ IsPrefix(old.selections, new.selections)
          /\ old.links # {} => new.links = old.links /\ new.tag = old.tag
          /\ old.status = "SAVED" => new = old
  <1>1. GuidedInv /\ [GuidedNext]_guidedVars => [Accepts]_guidedVars
    BY GuidedStep DEF Kept, Stands
  <1> QED
    BY <1>1, GuidedInvariant, PTL DEF GuidedSpec, AcceptedStepsStand

\* createOrGet and updateDraw implement idempotent creation: an oracle
\* operation casts one session and a tarot operation takes one slot, and every
\* caller is told that one.
THEOREM OperationsOnceAlways == GuidedSpec => OperationsTakeEffectOnce
  <1>1. GuidedInit => Creation!CreationInit
    BY NoSessionRow DEF GuidedInit, Creation!CreationInit, Made, IsOracle
  <1>2. GuidedInv /\ [GuidedNext]_guidedVars => [Creation!CreationNext]_<<Made, told>>
    BY GuidedStep
  <1> QED
    BY <1>1, <1>2, GuidedInvariant, PTL
       DEF GuidedSpec, OperationsTakeEffectOnce, Creation!CreationSpec

=============================================================================
