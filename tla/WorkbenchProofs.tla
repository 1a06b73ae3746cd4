--------------------------- MODULE WorkbenchProofs ---------------------------
(***************************************************************************)
(* Proofs about PlanArtifacts, for any number of versions, revisions and   *)
(* notes, and about FeishuWorkbench, for any chats, cards, events, calls   *)
(* and restarts.                                                           *)
(***************************************************************************)
EXTENDS PlanArtifacts, FeishuWorkbench, FiniteSetTheorems, TLAPS

ArtifactRows  == [status : Statuses, iteration : Nat \ {0}, notes : Seq(Rounds)]
RevisionCalls == [pc : {"idle", "revising", "uploading"}, version : 0 .. MaxVersion, content : Contents]

(* Rows are absent or whole. *)
RowsAreWhole ==
  /\ DOMAIN artifact = Versions
  /\ \A v \in Versions : artifact[v] = Absent \/ artifact[v] \in ArtifactRows

(* The versions recorded are the first ones. *)
NoGaps == \E n \in 0 .. MaxVersion : Recorded = 1 .. n

(* A call at work will record the version after one that is recorded. *)
RevisionsFollow ==
  /\ revision \in [Revisions -> RevisionCalls]
  /\ \A c \in Working :
       /\ revision[c].version \in Versions
       /\ revision[c].version = 1 \/ revision[c].version - 1 \in Recorded

PInv ==
  /\ RowsAreWhole
  /\ NoGaps
  /\ RevisionsFollow
  /\ VersionsMoveTogether
-----------------------------------------------------------------------------
(* The latest version is the highest one recorded. *)
LEMMA LatestIsRecorded ==
  ASSUME NoGaps, Recorded # {}
  PROVE  latest \in Recorded /\ \A v \in Recorded : v <= latest
<1>1. PICK n \in 0 .. MaxVersion : Recorded = 1 .. n
  BY DEF NoGaps
<1>2. n \in Recorded /\ \A v \in Recorded : n >= v
  BY <1>1, PlanAssumption DEF PlanAssumption
<1>. QED  BY <1>2 DEF latest, Max

(* A row is no absent row. *)
LEMMA RowsStay == \A r \in ArtifactRows : r # Absent
  BY DEF ArtifactRows, Absent, Statuses

LEMMA FreshRowTyped ==
  FreshRow \in ArtifactRows /\ FreshRow # Absent /\ FreshRow.status = "pending_review"
  BY DEF FreshRow, ArtifactRows, Absent, Statuses

(* A change of the rows that keeps who is recorded keeps what follows from that. *)
LEMMA SameRecorded ==
  ASSUME PInv, Recorded' = Recorded, UNCHANGED revision
  PROVE  NoGaps' /\ RevisionsFollow' /\ Working' = Working
<1>1. Working' = Working
  BY DEF Working
<1>2. NoGaps'
  BY DEF PInv, NoGaps
<1>3. RevisionsFollow'
  BY <1>1 DEF PInv, RevisionsFollow
<1>. QED  BY <1>1, <1>2, <1>3

(* A status changes in all the versions that have it. *)
LEMMA MoveStep ==
  ASSUME PInv, NEW from \in Statuses, NEW to \in Statuses, Move(from, to)
  PROVE  PInv' /\ Recorded' = Recorded
<1>. USE DEF PInv
<1>2. \A v \in Versions :
        artifact'[v] = IF v \in Expected(from) THEN [artifact[v] EXCEPT !.status = to] ELSE artifact[v]
  BY DEF Move
<1>3. ASSUME NEW v \in Expected(from)
      PROVE  /\ v \in Recorded /\ artifact'[v] \in ArtifactRows
             /\ artifact'[v] # Absent /\ artifact'[v].notes = artifact[v].notes
  <2>1. v \in Recorded /\ v \in Versions /\ artifact[v] \in ArtifactRows
    BY DEF Expected, Recorded, RowsAreWhole
  <2>2. artifact'[v] = [artifact[v] EXCEPT !.status = to]
    BY <1>2, <2>1
  <2>3. artifact'[v] \in ArtifactRows /\ artifact'[v].notes = artifact[v].notes
    BY <2>1, <2>2 DEF ArtifactRows
  <2>. QED  BY <2>1, <2>3, RowsStay
<1>4. RowsAreWhole'
  BY <1>2, <1>3 DEF Move, RowsAreWhole
<1>5. Recorded' = Recorded
  BY <1>2, <1>3, RowsStay DEF Recorded
<1>6. NoGaps' /\ RevisionsFollow' /\ Working' = Working
  BY <1>5, SameRecorded DEF Move
<1>7. VersionsMoveTogether'
  <2>1. \A v \in Recorded : v \in Versions /\ artifact'[v].notes = artifact[v].notes
    BY <1>2, <1>3 DEF Recorded
  <2>2. ASSUME "rows" \notin parted, NEW v \in Recorded, NEW w \in Recorded
        PROVE  artifact'[v] = artifact'[w]
    <3>1. artifact[v] = artifact[w] /\ (v \in Expected(from) <=> w \in Expected(from))
      BY <2>2 DEF VersionsMoveTogether, Expected
    <3>. QED  BY <1>2, <2>1, <3>1
  <2>. QED  BY <1>5, <2>1, <2>2 DEF VersionsMoveTogether, Move
<1>. QED  BY <1>5, <1>4, <1>6, <1>7

(* One version is marked: the rows are parted, the notes are not. *)
LEMMA MarkStep ==
  ASSUME PInv, NEW w \in Versions, NEW status \in Statuses, markStatus(w, status)
  PROVE  PInv' /\ Recorded' = Recorded
<1>. USE DEF PInv
<1>1. w \in Recorded /\ artifact[w] \in ArtifactRows
  BY DEF markStatus, Recorded, RowsAreWhole
<1>2. /\ artifact' = [artifact EXCEPT ![w].status = status]
      /\ artifact'[w] = [artifact[w] EXCEPT !.status = status]
  BY DEF markStatus, RowsAreWhole
<1>3. artifact'[w] \in ArtifactRows /\ artifact'[w].notes = artifact[w].notes
  BY <1>1, <1>2 DEF ArtifactRows
<1>4. \A v \in Versions : v # w => artifact'[v] = artifact[v]
  BY <1>2 DEF RowsAreWhole
<1>5. RowsAreWhole'
  BY <1>2, <1>3, <1>4 DEF RowsAreWhole
<1>6. Recorded' = Recorded
  BY <1>1, <1>3, <1>4, RowsStay DEF Recorded
<1>7. NoGaps' /\ RevisionsFollow'
  BY <1>6, SameRecorded DEF markStatus
<1>8. \A v \in Recorded : artifact'[v].notes = artifact[v].notes
  BY <1>3, <1>4 DEF Recorded
<1>9. VersionsMoveTogether'
  BY <1>6, <1>8 DEF VersionsMoveTogether, markStatus
<1>. QED  BY <1>5, <1>6, <1>7, <1>9

(* A plan goes into another round. *)
LEMMA BumpStep ==
  ASSUME PInv, NEW from \in Statuses, NEW to \in Statuses, bumpIteration(from, to)
  PROVE  PInv' /\ Recorded' = Recorded
<1>. USE DEF PInv
<1>1. latest \in Recorded
  BY LatestIsRecorded DEF bumpIteration
<1>2. artifact[latest].iteration + 1 \in Nat \ {0}
  BY <1>1 DEF Recorded, RowsAreWhole, ArtifactRows
<1>3. \A v \in Versions :
        artifact'[v] = IF v \in Expected(from)
                  THEN [artifact[v] EXCEPT !.status = to, !.iteration = artifact[latest].iteration + 1]
                  ELSE artifact[v]
  BY DEF bumpIteration
<1>4. ASSUME NEW v \in Expected(from)
      PROVE  /\ v \in Recorded /\ artifact'[v] \in ArtifactRows
             /\ artifact'[v] # Absent /\ artifact'[v].notes = artifact[v].notes
  <2>1. v \in Recorded /\ v \in Versions /\ artifact[v] \in ArtifactRows
    BY DEF Expected, Recorded, RowsAreWhole
  <2>2. artifact'[v] = [artifact[v] EXCEPT !.status = to, !.iteration = artifact[latest].iteration + 1]
    BY <1>3, <2>1
  <2>3. artifact'[v] \in ArtifactRows /\ artifact'[v].notes = artifact[v].notes
    BY <1>2, <2>1, <2>2 DEF ArtifactRows
  <2>. QED  BY <2>1, <2>3, RowsStay
<1>5. RowsAreWhole'
  BY <1>3, <1>4 DEF bumpIteration, RowsAreWhole
<1>6. Recorded' = Recorded
  BY <1>3, <1>4, RowsStay DEF Recorded
<1>7. NoGaps' /\ RevisionsFollow' /\ Working' = Working
  BY <1>6, SameRecorded DEF bumpIteration
<1>8. VersionsMoveTogether'
  <2>1. \A v \in Recorded : v \in Versions /\ artifact'[v].notes = artifact[v].notes
    BY <1>3, <1>4 DEF Recorded
  <2>2. ASSUME "rows" \notin parted, NEW v \in Recorded, NEW w \in Recorded
        PROVE  artifact'[v] = artifact'[w]
    <3>1. artifact[v] = artifact[w] /\ (v \in Expected(from) <=> w \in Expected(from))
      BY <2>2 DEF VersionsMoveTogether, Expected
    <3>. QED  BY <1>3, <2>1, <3>1
  <2>. QED  BY <1>6, <2>1, <2>2 DEF VersionsMoveTogether, bumpIteration
<1>. QED  BY <1>6, <1>5, <1>7, <1>8

(* A note is written to every version. *)
LEMMA NoteStep ==
  ASSUME PInv, NEW round \in Rounds, appendIterationNote(round)
  PROVE  PInv' /\ Recorded' = Recorded
<1>. USE DEF PInv
<1>1. latest \in Recorded /\ artifact[latest] \in ArtifactRows
  BY LatestIsRecorded DEF appendIterationNote, Recorded, RowsAreWhole
<1>. DEFINE notes == Append(artifact[latest].notes, round)
<1>2. notes \in Seq(Rounds) /\ round \in Nat \ {0}
  BY <1>1, PlanAssumption DEF ArtifactRows, PlanAssumption
<1>3. \A v \in Versions :
        artifact'[v] = IF v \in Recorded THEN [artifact[v] EXCEPT !.notes = notes, !.iteration = round]
                  ELSE artifact[v]
  BY DEF appendIterationNote
<1>4. ASSUME NEW v \in Recorded
      PROVE  /\ v \in Versions /\ artifact'[v] \in ArtifactRows /\ artifact'[v] # Absent
             /\ artifact'[v].notes = notes
  <2>1. v \in Versions /\ artifact[v] \in ArtifactRows
    BY DEF Recorded, RowsAreWhole
  <2>2. artifact'[v] = [artifact[v] EXCEPT !.notes = notes, !.iteration = round]
    BY <1>3, <2>1
  <2>3. artifact'[v] \in ArtifactRows /\ artifact'[v].notes = notes
    BY <1>2, <2>1, <2>2 DEF ArtifactRows
  <2>. QED  BY <2>1, <2>3, RowsStay
<1>5. Recorded' = Recorded
  BY <1>3, <1>4 DEF Recorded
<1>6. NoGaps' /\ RevisionsFollow' /\ Working' = Working
  BY <1>5, SameRecorded DEF appendIterationNote
<1>7. RowsAreWhole'
  BY <1>3, <1>4 DEF appendIterationNote, RowsAreWhole
<1>8. VersionsMoveTogether'
  <2>1. parted' = parted /\ noted' = Append(noted, round)
    BY DEF appendIterationNote
  <2>2. ASSUME "notes" \notin parted PROVE notes = noted'
    BY <1>1, <2>1, <2>2 DEF VersionsMoveTogether
  <2>3. ASSUME "rows" \notin parted, NEW v \in Recorded, NEW w \in Recorded
        PROVE  artifact'[v] = artifact'[w]
    BY <1>3, <1>4, <2>3 DEF VersionsMoveTogether
  <2>. QED  BY <1>4, <1>5, <2>1, <2>2, <2>3 DEF VersionsMoveTogether
<1>. QED  BY <1>5, <1>6, <1>7, <1>8

(* A change of the calls alone keeps what is said of the rows. *)
LEMMA SameRows ==
  ASSUME PInv, UNCHANGED <<artifact, noted, parted>>
  PROVE  RowsAreWhole' /\ NoGaps' /\ Recorded' = Recorded /\ VersionsMoveTogether'
<1>1. Recorded' = Recorded
  BY DEF Recorded
<1>. QED  BY <1>1 DEF PInv, RowsAreWhole, NoGaps, VersionsMoveTogether

(* The first version starts from nothing. *)
LEMMA CreateStep ==
  ASSUME PInv, NEW c \in Revisions, CreateInitial(c)
  PROVE  PInv'
<1>. USE DEF PInv
<1>1. RowsAreWhole' /\ NoGaps' /\ Recorded' = Recorded /\ VersionsMoveTogether' /\ Recorded = {}
  BY SameRows DEF CreateInitial
<1>2. revision' = [revision EXCEPT ![c] = [pc |-> "uploading", version |-> 1, content |-> {}]]
  BY DEF CreateInitial
<1>3. [pc |-> "uploading", version |-> 1, content |-> {}] \in RevisionCalls
  BY PlanAssumption DEF RevisionCalls, Contents, PlanAssumption
<1>4. revision' \in [Revisions -> RevisionCalls]
  BY <1>2, <1>3 DEF RevisionsFollow
<1>5. \A d \in Working' : d = c
  BY <1>2 DEF CreateInitial, Working, RevisionsFollow
<1>6. revision'[c].version = 1 /\ 1 \in Versions
  BY <1>2, PlanAssumption DEF RevisionsFollow, Versions, PlanAssumption
<1>7. RevisionsFollow'
  BY <1>4, <1>5, <1>6 DEF RevisionsFollow
<1>. QED  BY <1>1, <1>7

(* A revision starts from the latest version. *)
LEMMA ReviseStep ==
  ASSUME PInv, NEW c \in Revisions, NEW note \in Notes, Revise(c, note),
         file[latest].content \in Contents
  PROVE  PInv'
<1>. USE DEF PInv
<1>1. RowsAreWhole' /\ NoGaps' /\ Recorded' = Recorded /\ VersionsMoveTogether'
  BY SameRows DEF Revise
<1>2. latest \in Recorded /\ latest \in Versions /\ latest + 1 \in Versions
  BY LatestIsRecorded, PlanAssumption DEF Revise, Recorded, Versions, PlanAssumption
<1>. DEFINE begun == [pc |-> "revising", version |-> latest + 1,
                      content |-> file[latest].content \cup {note}]
<1>3. revision' = [revision EXCEPT ![c] = begun]
  BY DEF Revise
<1>4. begun \in RevisionCalls
  BY <1>2 DEF RevisionCalls, Contents, Versions
<1>5. revision' \in [Revisions -> RevisionCalls] /\ revision'[c] = begun
  BY <1>3, <1>4 DEF RevisionsFollow
<1>6. ASSUME NEW d \in Working', d # c
      PROVE  d \in Working /\ revision'[d] = revision[d]
  <2>1. d \in Revisions /\ revision'[d].pc # "idle"
    BY DEF Working
  <2>2. revision'[d] = revision[d]
    BY <1>3, <1>6, <2>1 DEF RevisionsFollow
  <2>. QED  BY <2>1, <2>2 DEF Working
<1>7. begun.version \in Versions /\ begun.version - 1 \in Recorded
  BY <1>2 DEF Versions
<1>8. RevisionsFollow'
  BY <1>1, <1>5, <1>6, <1>7 DEF RevisionsFollow
<1>. QED  BY <1>1, <1>8

(* The file is written before the row. *)
LEMMA WriteStep ==
  ASSUME PInv, NEW c \in Revisions, WriteFile(c)
  PROVE  PInv'
<1>. USE DEF PInv
<1>1. RowsAreWhole' /\ NoGaps' /\ Recorded' = Recorded /\ VersionsMoveTogether'
  BY SameRows DEF WriteFile
<1>2. revision' = [revision EXCEPT ![c].pc = "uploading"] /\ revision[c].pc = "revising"
  BY DEF WriteFile
<1>3. /\ revision' \in [Revisions -> RevisionCalls]
      /\ \A d \in Revisions : revision'[d].version = revision[d].version
      /\ \A d \in Revisions : revision'[d].pc # "idle" <=> revision[d].pc # "idle"
  BY <1>2 DEF RevisionsFollow, RevisionCalls
<1>4. Working' = Working
  BY <1>3 DEF Working
<1>5. RevisionsFollow'
  BY <1>1, <1>3, <1>4 DEF RevisionsFollow, Working
<1>. QED  BY <1>1, <1>5

(* A call that goes leaves the others as they are. *)
LEMMA CallEnds ==
  ASSUME PInv, NEW c \in Revisions, revision' = [revision EXCEPT ![c] = NoRevision],
         Recorded \subseteq Recorded'
  PROVE  RevisionsFollow' /\ Working' = Working \ {c}
<1>. USE DEF PInv
<1>1. NoRevision \in RevisionCalls
  BY PlanAssumption DEF NoRevision, RevisionCalls, Contents, PlanAssumption
<1>2. revision' \in [Revisions -> RevisionCalls]
  BY <1>1 DEF RevisionsFollow
<1>3. \A d \in Revisions : IF d = c THEN revision'[d].pc = "idle" ELSE revision'[d] = revision[d]
  BY DEF RevisionsFollow, NoRevision
<1>4. Working' = Working \ {c}
  BY <1>3 DEF Working
<1>. QED  BY <1>2, <1>3, <1>4 DEF RevisionsFollow, Working

(* A failed call leaves the rows alone. *)
LEMMA FailsStep ==
  ASSUME PInv, NEW c \in Revisions, RevisionFails(c)
  PROVE  PInv'
<1>. USE DEF PInv
<1>1. RowsAreWhole' /\ NoGaps' /\ Recorded' = Recorded /\ VersionsMoveTogether'
  BY SameRows DEF RevisionFails
<1>2. RevisionsFollow' /\ Working' = Working \ {c}
  BY <1>1, CallEnds DEF RevisionFails
<1>. QED  BY <1>1, <1>2

(* What a new row adds to the rows: one version, the one after the latest. *)
LEMMA Recording ==
  ASSUME PInv, NEW c \in Revisions, Record(c)
  PROVE  /\ revision[c].version \in Versions \ Recorded
         /\ artifact' = [artifact EXCEPT ![revision[c].version] = FreshRow]
         /\ Recorded' = Recorded \cup {revision[c].version}
         /\ NoGaps'
<1>. USE DEF PInv
<1>. DEFINE w == revision[c].version
<1>1. c \in Working
  BY DEF Record, Working
<1>2. w \in Versions /\ (w = 1 \/ w - 1 \in Recorded)
  BY <1>1 DEF RevisionsFollow
<1>3. artifact[w] = Absent /\ artifact' = [artifact EXCEPT ![w] = FreshRow]
  BY DEF Record, createVersion, FreshRow
<1>4. Recorded' = Recorded \cup {w}
  BY <1>2, <1>3, FreshRowTyped DEF Recorded, RowsAreWhole
<1>5. w \notin Recorded
  BY <1>3 DEF Recorded
<1>6. PICK n \in 0 .. MaxVersion : Recorded = 1 .. n
  BY DEF NoGaps
<1>7. w = n + 1
  BY <1>2, <1>5, <1>6, PlanAssumption DEF Versions, PlanAssumption
<1>8. Recorded' = 1 .. w /\ w \in 0 .. MaxVersion
  BY <1>2, <1>4, <1>6, <1>7, PlanAssumption DEF Versions, PlanAssumption
<1>9. NoGaps'
  BY <1>8 DEF NoGaps
<1>. QED  BY <1>2, <1>3, <1>4, <1>5, <1>9

(* The row of a version is inserted. *)
LEMMA RecordStep ==
  ASSUME PInv, NEW c \in Revisions, Record(c)
  PROVE  PInv'
<1>. USE DEF PInv
<1>. DEFINE w == revision[c].version
<1>1. /\ w \in Versions \ Recorded
      /\ artifact' = [artifact EXCEPT ![w] = FreshRow]
      /\ Recorded' = Recorded \cup {w} /\ NoGaps'
  BY Recording
<1>2. \A v \in Versions : artifact'[v] = IF v = w THEN FreshRow ELSE artifact[v]
  BY <1>1 DEF RowsAreWhole
<1>3. RowsAreWhole'
  BY <1>1, <1>2, FreshRowTyped DEF RowsAreWhole
<1>4. RevisionsFollow' /\ Working' = Working \ {c}
  BY <1>1, CallEnds DEF Record
<1>5. VersionsMoveTogether'
  <2>1. noted' = noted /\ FreshRow.notes = << >>
    BY DEF Record, FreshRow
  <2>2. ASSUME "notes" \notin parted' PROVE "notes" \notin parted /\ noted = << >>
    BY <2>2 DEF Record
  <2>3. ASSUME "rows" \notin parted', NEW v \in Recorded PROVE artifact[v] = FreshRow
    BY <2>3 DEF Record
  <2>4. \A v \in Recorded : v \in Versions
    BY DEF Recorded
  <2>. QED  BY <1>1, <1>2, <2>1, <2>2, <2>3, <2>4 DEF VersionsMoveTogether
<1>. QED  BY <1>1, <1>3, <1>4, <1>5

-----------------------------------------------------------------------------
(* Files and documents hold contents, and the bound on the steps is kept. *)
DataIsWhole ==
  /\ file \in [Versions -> [written : BOOLEAN, content : Contents]]
  /\ doc \in [Versions -> Contents]
  /\ noted \in Seq(Rounds) /\ parted \subseteq {"notes", "rows"}
  /\ steps \in 0 .. MaxSteps

LEMMA DataStep ==
  ASSUME PInv, DataIsWhole, [PlanNext]_planVars
  PROVE  DataIsWhole'
<1>. USE PlanAssumption DEF PlanAssumption, DataIsWhole, PInv
<1>1. ASSUME Stepped
      PROVE  steps' \in 0 .. MaxSteps
  BY <1>1 DEF Stepped
<1>2. CASE UNCHANGED planVars
  BY <1>2 DEF planVars
<1>3. ASSUME NEW c \in Revisions, CreateInitial(c)
      PROVE  DataIsWhole'
  BY <1>1, <1>3 DEF CreateInitial, Contents
<1>4. ASSUME NEW c \in Revisions, NEW note \in Notes, Revise(c, note)
      PROVE  DataIsWhole'
  BY <1>1, <1>4 DEF Revise
<1>5. ASSUME NEW c \in Revisions
      PROVE  revision[c].content \in Contents
  BY <1>5 DEF RevisionsFollow, RevisionCalls
<1>6. ASSUME NEW c \in Revisions, WriteFile(c)
      PROVE  DataIsWhole'
  BY <1>5, <1>6 DEF WriteFile
<1>7. ASSUME NEW c \in Revisions, Record(c)
      PROVE  DataIsWhole'
  BY <1>5, <1>7 DEF Record
<1>8. ASSUME NEW c \in Revisions, RevisionFails(c)
      PROVE  DataIsWhole'
  BY <1>8 DEF RevisionFails
<1>9. ASSUME NEW from \in Statuses, NEW to \in Statuses, Move(from, to) \/ bumpIteration(from, to)
      PROVE  DataIsWhole'
  BY <1>1, <1>9 DEF Move, bumpIteration
<1>10. ASSUME NEW round \in Rounds, appendIterationNote(round)
       PROVE  DataIsWhole'
  <2>1. Append(noted, round) \in Seq(Rounds)
    OBVIOUS
  <2>2. noted' = Append(noted, round) /\ UNCHANGED <<file, doc, parted>> /\ steps' \in 0 .. MaxSteps
    BY <1>1, <1>10 DEF appendIterationNote
  <2>. QED  BY <2>1, <2>2
<1>11. ASSUME NEW v \in Versions, NEW status \in Statuses, markStatus(v, status)
       PROVE  DataIsWhole'
  BY <1>1, <1>11 DEF markStatus
<1>12. Used \subseteq Statuses
  OBVIOUS
<1>. QED  BY <1>2, <1>3, <1>4, <1>6, <1>7, <1>8, <1>9, <1>10, <1>11, <1>12 DEF PlanNext

-----------------------------------------------------------------------------
PlanInv == PInv /\ DataIsWhole

LEMMA PlanStarts == PlanInit => PlanInv
<1>. SUFFICES ASSUME PlanInit PROVE PlanInv
  OBVIOUS
<1>. USE PlanAssumption DEF PlanAssumption
<1>1. Recorded = {} /\ Working = {}
  BY DEF PlanInit, Recorded, Working, NoRevision
<1>2. RowsAreWhole
  BY DEF PlanInit, RowsAreWhole
<1>3. NoGaps
  <2>1. Recorded = 1 .. 0 /\ 0 \in 0 .. MaxVersion
    BY <1>1
  <2>. QED  BY <2>1 DEF NoGaps
<1>4. RevisionsFollow
  <2>1. NoRevision \in RevisionCalls
    BY DEF NoRevision, RevisionCalls, Contents
  <2>. QED  BY <1>1, <2>1 DEF PlanInit, RevisionsFollow
<1>5. VersionsMoveTogether
  BY <1>1 DEF VersionsMoveTogether
<1>6. DataIsWhole
  BY DEF PlanInit, DataIsWhole, NoFile, Contents
<1>. QED  BY <1>2, <1>3, <1>4, <1>5, <1>6 DEF PlanInv, PInv

LEMMA PlanSteps == PlanInv /\ [PlanNext]_planVars => PlanInv'
<1>. SUFFICES ASSUME PlanInv, [PlanNext]_planVars PROVE PlanInv'
  OBVIOUS
<1>1. PInv /\ DataIsWhole /\ DataIsWhole'
  BY DataStep DEF PlanInv
<1>2. CASE UNCHANGED planVars
  BY <1>1, <1>2
  DEF planVars, PInv, RowsAreWhole, NoGaps, RevisionsFollow, VersionsMoveTogether,
      Recorded, Working, PlanInv
<1>3. ASSUME NEW c \in Revisions, NEW note \in Notes, Revise(c, note)
      PROVE  PInv'
  <2>1. latest \in Versions
    BY <1>1, <1>3, LatestIsRecorded DEF Revise, PInv, Recorded
  <2>2. file[latest].content \in Contents
    BY <1>1, <2>1 DEF DataIsWhole
  <2>. QED  BY <1>1, <1>3, <2>2, ReviseStep
<1>4. ASSUME NEW c \in Revisions,
             CreateInitial(c) \/ WriteFile(c) \/ Record(c) \/ RevisionFails(c)
      PROVE  PInv'
  BY <1>1, <1>4, CreateStep, WriteStep, RecordStep, FailsStep
<1>5. ASSUME NEW from \in Statuses, NEW to \in Statuses, Move(from, to) \/ bumpIteration(from, to)
      PROVE  PInv'
  BY <1>1, <1>5, MoveStep, BumpStep
<1>6. ASSUME NEW round \in Rounds, appendIterationNote(round)
      PROVE  PInv'
  BY <1>1, <1>6, NoteStep
<1>7. ASSUME NEW v \in Versions, NEW status \in Statuses, markStatus(v, status)
      PROVE  PInv'
  BY <1>1, <1>7, MarkStep
<1>8. Used \subseteq Statuses
  BY PlanAssumption DEF PlanAssumption
<1>. QED  BY <1>1, <1>2, <1>3, <1>4, <1>5, <1>6, <1>7, <1>8 DEF PlanNext, PlanInv

(* The inductive invariant holds of every behaviour. *)
THEOREM PlanInvariance == PlanSpec => []PlanInv
<1>1. PlanInit => PlanInv
  BY PlanStarts
<1>2. PlanInv /\ [PlanNext]_planVars => PlanInv'
  BY PlanSteps
<1>. QED  BY <1>1, <1>2, PTL DEF PlanSpec

(* Rows, files and calls are of the kinds the code knows. *)
THEOREM PlanTypeCorrect == PlanSpec => []PlanTypeOK
<1>1. PlanInv => PlanTypeOK
  <2>. SUFFICES ASSUME PlanInv PROVE PlanTypeOK
    OBVIOUS
  <2>1. \A v \in Versions : artifact[v] # Absent => artifact[v].status \in Statuses
                                             /\ artifact[v].iteration \in Nat \ {0}
    BY DEF PlanInv, PInv, RowsAreWhole, ArtifactRows
  <2>2. revision \in [Revisions -> RevisionCalls]
    BY DEF PlanInv, PInv, RevisionsFollow
  <2>. QED  BY <2>1, <2>2 DEF PlanInv, DataIsWhole, PlanTypeOK, RevisionCalls
<1>. QED  BY <1>1, PlanInvariance, PTL

(* For any number of calls of the store in any order, with any statuses and  *)
(* notes: every version carries every note until a version is recorded after *)
(* one, and all versions are the same until one is recorded late or marked   *)
(* alone. The property is inductive once rows are known to be whole.         *)
THEOREM VersionsTogether == PlanSpec => []VersionsMoveTogether
<1>1. PlanInv => VersionsMoveTogether
  BY DEF PlanInv, PInv
<1>. QED  BY <1>1, PlanInvariance, PTL

(* Every step keeps the versions recorded and what their documents say. *)
LEMMA RowsAreKept ==
  ASSUME PInv, [PlanNext]_planVars
  PROVE  Recorded \subseteq Recorded' /\ \A v \in Recorded : doc'[v] = doc[v]
<1>. USE DEF PInv
<1>1. ASSUME NEW c \in Revisions, Record(c)
      PROVE  Recorded \subseteq Recorded' /\ \A v \in Recorded : doc'[v] = doc[v]
  <2>1. revision[c].version \notin Recorded /\ Recorded \subseteq Recorded'
    BY <1>1, Recording
  <2>. QED  BY <1>1, <2>1 DEF Record
<1>2. ASSUME NEW v \in Recorded, artifact'[v] # Absent
      PROVE  v \in Recorded'
  BY <1>2 DEF Recorded
<1>3. CASE UNCHANGED planVars
  BY <1>3 DEF planVars, Recorded
<1>4. ASSUME NEW c \in Revisions, CreateInitial(c) \/ WriteFile(c) \/ RevisionFails(c)
                                  \/ \E note \in Notes : Revise(c, note)
      PROVE  Recorded \subseteq Recorded' /\ doc' = doc
  BY <1>4 DEF CreateInitial, WriteFile, RevisionFails, Revise, Recorded
<1>5. ASSUME NEW from \in Statuses, NEW to \in Statuses, Move(from, to) \/ bumpIteration(from, to)
      PROVE  Recorded' = Recorded /\ doc' = doc
  BY <1>5, MoveStep, BumpStep DEF Move, bumpIteration
<1>6. ASSUME NEW round \in Rounds, appendIterationNote(round)
      PROVE  Recorded' = Recorded /\ doc' = doc
  BY <1>6, NoteStep DEF appendIterationNote
<1>7. ASSUME NEW v \in Versions, NEW status \in Statuses, markStatus(v, status)
      PROVE  Recorded' = Recorded /\ doc' = doc
  BY <1>7, MarkStep DEF markStatus
<1>8. Used \subseteq Statuses
  BY PlanAssumption DEF PlanAssumption
<1>. QED  BY <1>1, <1>3, <1>4, <1>5, <1>6, <1>7, <1>8 DEF PlanNext

(* The versions recorded are 1 .. N, and none is taken back or replaced. *)
THEOREM VersionsStay == PlanSpec => VersionsAreKept
<1>1. \A n \in 0 .. MaxVersion : Cardinality(1 .. n) = n
  BY FS_Interval, PlanAssumption DEF PlanAssumption
<1>2. ASSUME PlanInv, PlanInv', [PlanNext]_planVars
      PROVE  Recorded \subseteq Recorded' /\ Recorded' = 1 .. Cardinality(Recorded')
             /\ \A v \in Recorded : doc'[v] = doc[v]
  <2>1. PICK n \in 0 .. MaxVersion : Recorded' = 1 .. n
    BY <1>2 DEF PlanInv, PInv, NoGaps
  <2>. QED  BY <1>1, <1>2, <2>1, RowsAreKept DEF PlanInv, PInv
<1>3. PlanInv /\ PlanInv' /\ [PlanNext]_planVars
        => [Recorded \subseteq Recorded' /\ Recorded' = 1 .. Cardinality(Recorded')
            /\ \A v \in Recorded : doc'[v] = doc[v]]_planVars
  BY <1>2
<1>. QED  BY <1>3, PlanInvariance, PTL DEF PlanSpec, VersionsAreKept

-----------------------------------------------------------------------------
(* What an event is worth: one dispatch when its id is handled, none before. *)
Worth(source, id) == IF <<source, id>> \in handled THEN 1 ELSE 0

DispatchesCounted ==
  /\ restarts \in Nat
  /\ dispatched \in [Messages \cup CardIds -> Nat]
  /\ \A m \in Messages : dispatched[m] <= restarts + Worth("message", m)
  /\ \A k \in CardIds  : dispatched[k] <= restarts + Worth("card", k)

(* The connection marks and counts an event in one step, forgets at a death, or *)
(* does neither.                                                                *)
LEMMA ConnectionMoves ==
  ASSUME [Next]_vars
  PROVE  \/ \E m \in Messages : MarkUnhandled("message", m) /\ CountDispatch(m)
         \/ \E k \in CardIds : MarkUnhandled("card", k) /\ CountDispatch(k)
         \/ ConnectionDies
         \/ UNCHANGED <<handled, dispatched, restarts>>
<1>1. CASE \E s \in Runs : \E m \in Messages : Message(s, m)
  BY <1>1 DEF Message, MessageStarts
<1>2. CASE \E s \in Runs : \E k \in CardIds, b \in AllButtons, input \in Repos \cup {NoInput} :
             Click(s, k, b, input)
  BY <1>2 DEF Click, ClickStarts
<1>3. CASE \E s \in Runs : \E k \in DOMAIN OtherCards : OtherClick(s, k)
  BY <1>3, CompositionAssumption DEF OtherClick, ClickStarts, CompositionAssumption
<1>4. CASE \E s \in Runs : BotMenu(s)
  BY <1>4 DEF BotMenu, Menu
<1>5. CASE \E s \in Runs : \E c \in Chats, b \in AllButtons : \E input \in Payloads(b) :
             Command(s, c, b, input)
  BY <1>5 DEF Command, connectionVars
<1>6. CASE \E s \in Runs : Work(s) \/ CardSent(s) \/ CardNotSent(s) \/ OtherRunEnds(s)
  BY <1>6 DEF Work, CardSent, CardNotSent, OtherRunEnds, Ends, RunEnds, connectionVars
<1>7. CASE ComesToNothing
  BY <1>7, CompositionAssumption
  DEF ComesToNothing, MessageRefused, ClickRefused, CompositionAssumption
<1>8. CASE Restart
  BY <1>8 DEF Restart
<1>9. CASE UNCHANGED vars
  BY <1>9 DEF vars, connectionVars
<1>. QED  BY <1>1, <1>2, <1>3, <1>4, <1>5, <1>6, <1>7, <1>8, <1>9 DEF Next

(* At most one dispatch more than there were deaths. *)
LEMMA OneMore ==
  ASSUME DispatchesCounted
  PROVE  \A e \in Messages \cup CardIds : dispatched[e] \in Nat /\ dispatched[e] <= restarts + 1
<1>1. \A source, id : Worth(source, id) \in {0, 1}
  BY DEF Worth
<1>2. ASSUME NEW m \in Messages  PROVE  dispatched[m] \in Nat /\ dispatched[m] <= restarts + 1
  <2>1. dispatched[m] <= restarts + Worth("message", m) /\ Worth("message", m) \in {0, 1}
    BY <1>1 DEF DispatchesCounted
  <2>. QED  BY <2>1 DEF DispatchesCounted
<1>3. ASSUME NEW k \in CardIds  PROVE  dispatched[k] \in Nat /\ dispatched[k] <= restarts + 1
  <2>1. dispatched[k] <= restarts + Worth("card", k) /\ Worth("card", k) \in {0, 1}
    BY <1>1 DEF DispatchesCounted
  <2>. QED  BY <2>1 DEF DispatchesCounted
<1>. QED  BY <1>2, <1>3

(* Ids of messages and of cards are kept apart by their source. *)
LEMMA DispatchesStep ==
  ASSUME DispatchesCounted, [Next]_vars
  PROVE  DispatchesCounted'
<1>. USE DEF DispatchesCounted, Worth
<1>1. ASSUME NEW m \in Messages, MarkUnhandled("message", m), CountDispatch(m)
      PROVE  DispatchesCounted'
  <2>1. /\ handled' = handled \cup {<<"message", m>>} /\ <<"message", m>> \notin handled
        /\ dispatched' = [dispatched EXCEPT ![m] = @ + 1] /\ restarts' = restarts
    BY <1>1 DEF MarkUnhandled, CountDispatch
  <2>2. ASSUME NEW n \in Messages
        PROVE  dispatched'[n] <= restarts + (IF <<"message", n>> \in handled' THEN 1 ELSE 0)
    <3>1. CASE n = m
      BY <2>1, <3>1
    <3>2. CASE n # m
      <4>1. /\ dispatched'[n] = dispatched[n]
            /\ (<<"message", n>> \in handled => <<"message", n>> \in handled')
        BY <2>1, <3>2
      <4>. QED  BY <4>1
    <3>. QED  BY <3>1, <3>2
  <2>3. \A k \in CardIds : k # m /\ (<<"card", k>> \in handled' <=> <<"card", k>> \in handled)
    BY <2>1, ConnectionAssumption DEF ConnectionAssumption
  <2>4. \A k \in CardIds : dispatched'[k] <= restarts + (IF <<"card", k>> \in handled' THEN 1 ELSE 0)
    BY <2>1, <2>3
  <2>. QED  BY <2>1, <2>2, <2>4
<1>2. ASSUME NEW k \in CardIds, MarkUnhandled("card", k), CountDispatch(k)
      PROVE  DispatchesCounted'
  <2>1. /\ handled' = handled \cup {<<"card", k>>} /\ <<"card", k>> \notin handled
        /\ dispatched' = [dispatched EXCEPT ![k] = @ + 1] /\ restarts' = restarts
    BY <1>2 DEF MarkUnhandled, CountDispatch
  <2>2. ASSUME NEW j \in CardIds
        PROVE  dispatched'[j] <= restarts + (IF <<"card", j>> \in handled' THEN 1 ELSE 0)
    <3>1. CASE j = k
      BY <2>1, <3>1
    <3>2. CASE j # k
      <4>1. dispatched'[j] = dispatched[j] /\ (<<"card", j>> \in handled => <<"card", j>> \in handled')
        BY <2>1, <3>2
      <4>. QED  BY <4>1
    <3>. QED  BY <3>1, <3>2
  <2>3. \A m \in Messages : k # m /\ (<<"message", m>> \in handled' <=> <<"message", m>> \in handled)
    BY <2>1, ConnectionAssumption DEF ConnectionAssumption
  <2>4. \A m \in Messages : dispatched'[m] <= restarts + (IF <<"message", m>> \in handled' THEN 1 ELSE 0)
    BY <2>1, <2>3
  <2>. QED  BY <2>1, <2>2, <2>4
<1>3. CASE ConnectionDies
  <2>1. handled' = {} /\ restarts' = restarts + 1 /\ dispatched' = dispatched
    BY <1>3 DEF ConnectionDies
  <2>2. \A e \in Messages \cup CardIds : dispatched[e] \in Nat /\ dispatched[e] <= restarts + 1
    BY OneMore
  <2>. QED  BY <2>1, <2>2
<1>4. CASE UNCHANGED <<handled, dispatched, restarts>>
  BY <1>4
<1>. QED  BY <1>1, <1>2, <1>3, <1>4, ConnectionMoves

(***************************************************************************)
(* However often an event is delivered, and in whatever order with others, *)
(* a process dispatches it once: the id is marked in the step that counts, *)
(* and only a death forgets it (StartedOncePerLife).                       *)
(***************************************************************************)
THEOREM EventsStartOnce == Spec => []StartedOncePerLife
<1>1. Init => DispatchesCounted
  BY DEF Init, ConnectionInit, DispatchesCounted, Worth
<1>2. DispatchesCounted => StartedOncePerLife
  BY OneMore DEF DispatchesCounted, StartedOncePerLife
<1>. QED  BY <1>1, <1>2, DispatchesStep, PTL DEF Spec

-----------------------------------------------------------------------------
(* What the steps of FeishuWorkbench are to the workbench: a click has one of the *)
(* inputs of its button, and a call that starts has a place of its own.           *)
Given == Inputs \cup Repos \cup {NoInput}
Fits(b, input) ==
  /\ b \in NeedsText => input \in Inputs \cup {NoInput}
  /\ b \in NeedsRepo => input \in Repos \cup {NoInput}

CallRows == [pc : {"idle", "awaiting", "rendered", "thrown"}, chat : Chats \cup {NoChat},
             button : AllButtons \cup {"none"}, input : Given,
             read : Rows, card : [view : {"main", "repo_manage"}, row : Rows]]

(* A plan has a version. *)
PlanCounted(r) == r.planVersion = 0 <=> ~ hasPlan(r)

WorkbenchTyped ==
  /\ disturbed \subseteq Calls /\ torn \subseteq Chats
  /\ \A c \in Chats : PlanCounted(row[c])
  /\ row \in [Chats -> Rows] /\ said \in [Chats -> Texts]
  /\ view \in [Chats -> {"main", "repo_manage"}]
  /\ call \in [Calls -> CallRows]
  /\ \A s \in Calls : call[s].pc # "idle" => call[s].chat \in Chats
  /\ \A s \in Calls : call[s].pc = "awaiting" =>
       /\ call[s].button \in Awaiting
       /\ call[s].button \in NeedsText => call[s].input \in Inputs
       /\ Readable(call[s].button, call[s].read)

(* A card's buttons carry no text, also when an earlier click comes again. *)
CardsTyped ==
  /\ DOMAIN card = CardIds
  /\ \A k \in CardIds : card[k] # NoCard => card[k].chat \in Chats
  /\ \A k, b, input : <<k, b, input>> \in clicks => Fits(b, input)

LEMMA WorkbenchMoves ==
  ASSUME CardsTyped, [Next]_vars
  PROVE  \/ \E s \in Calls, c \in Chats : getCard(s, c)
         \/ \E s \in Calls, c \in Chats, b \in AllButtons, input \in Given :
              Fits(b, input) /\ Handle(s, c, b, input)
         \/ \E s \in Calls : WorkbenchStep(s) \/ Return(s)
         \/ WorkbenchDies
         \/ UNCHANGED workbenchVars
<1>. USE CompositionAssumption DEF CompositionAssumption
<1>1. CASE \E s \in Runs : \E m \in Messages : Message(s, m)
  BY <1>1 DEF Message
<1>2. ASSUME NEW s \in Runs, NEW k \in CardIds, NEW b \in AllButtons,
             NEW input \in Repos \cup {NoInput}, Click(s, k, b, input)
      PROVE  Fits(b, input) /\ Handle(s, card[k].chat, b, input) /\ card[k].chat \in Chats
  <2>1. card[k].chat \in Chats /\ Handle(s, card[k].chat, b, input)
    BY <1>2 DEF Click, CardsTyped
  <2>2. CASE <<k, b, input>> \in clicks
    BY <2>1, <2>2 DEF CardsTyped
  <2>3. CASE input \in CASE b = "remove_repo" -> card[k].shows.row.repositories
                         [] b = "add_repo"    -> Repos \cup {NoInput}
                         [] OTHER             -> {NoInput}
    BY <2>1, <2>3 DEF Fits, NeedsText, NeedsRepo
  <2>. QED  BY <1>2, <2>1, <2>2, <2>3 DEF Click
<1>3. CASE \E s \in Runs : \E k \in CardIds, b \in AllButtons, input \in Repos \cup {NoInput} :
             Click(s, k, b, input)
  BY <1>2, <1>3 DEF Given
<1>4. CASE \E s \in Runs : \E k \in DOMAIN OtherCards : OtherClick(s, k)
  BY <1>4 DEF OtherClick
<1>5. ASSUME NEW c \in Chats, NEW b \in AllButtons, NEW input \in Payloads(b)
      PROVE  Fits(b, input) /\ input \in Given
  <2>1. CASE b \in NeedsText
    BY <1>5, <2>1 DEF Payloads, Fits, NeedsText, NeedsRepo, Given
  <2>2. CASE b \in NeedsRepo
    BY <1>5, <2>2 DEF Payloads, Fits, NeedsText, NeedsRepo, Given
  <2>3. CASE b \notin NeedsText \cup NeedsRepo
    BY <1>5, <2>3 DEF Payloads, Fits, Given
  <2>. QED  BY <2>1, <2>2, <2>3
<1>6. CASE \E s \in Runs : \E c \in Chats, b \in AllButtons : \E input \in Payloads(b) :
             Command(s, c, b, input)
  <2>1. PICK s \in Runs, c \in Chats, b \in AllButtons : \E input \in Payloads(b) :
          Command(s, c, b, input)
    BY <1>6
  <2>2. PICK input \in Payloads(b) : Command(s, c, b, input)
    BY <2>1
  <2>. QED  BY <1>5, <2>2 DEF Command
<1>7. CASE \E s \in Runs : Work(s) \/ CardSent(s) \/ CardNotSent(s) \/ OtherRunEnds(s) \/ BotMenu(s)
  BY <1>7 DEF Work, CardSent, CardNotSent, OtherRunEnds, BotMenu
<1>8. CASE ComesToNothing
  BY <1>8 DEF ComesToNothing
<1>9. CASE Restart
  BY <1>9 DEF Restart
<1>10. CASE UNCHANGED vars
  BY <1>10 DEF vars
<1>. QED  BY <1>1, <1>3, <1>4, <1>6, <1>7, <1>8, <1>9, <1>10 DEF Next

(* A click comes from a card with a chat, and keeps what it carried. *)
LEMMA CardsStep ==
  ASSUME WorkbenchTyped, CardsTyped, [Next]_vars
  PROVE  CardsTyped'
<1>. USE CompositionAssumption DEF CompositionAssumption
<1>1. ASSUME NEW s \in Runs, NEW k \in CardIds, NEW b \in AllButtons,
             NEW input \in Repos \cup {NoInput}, Click(s, k, b, input)
      PROVE  CardsTyped'
  <2>1. clicks' = clicks \cup {<<k, b, input>>} /\ card' = card
    BY <1>1 DEF Click
  <2>2. CASE <<k, b, input>> \in clicks
    BY <2>1, <2>2 DEF CardsTyped
  <2>3. CASE input \in CASE b = "remove_repo" -> card[k].shows.row.repositories
                         [] b = "add_repo"    -> Repos \cup {NoInput}
                         [] OTHER             -> {NoInput}
    <3>1. Fits(b, input)
      BY <2>3 DEF Fits, NeedsText, NeedsRepo
    <3>. QED  BY <2>1, <3>1 DEF CardsTyped
  <2>. QED  BY <1>1, <2>2, <2>3 DEF Click
<1>2. ASSUME NEW s \in Runs, CardSent(s)
      PROVE  CardsTyped'
  <2>1. PICK k \in CardIds :
          card' = [card EXCEPT ![k] = [chat |-> call[s].chat, shows |-> call[s].card]]
    BY <1>2 DEF CardSent
  <2>2. call[s].chat \in Chats /\ clicks' = clicks
    BY <1>2 DEF CardSent, WorkbenchTyped
  <2>3. ASSUME NEW j \in CardIds, card'[j] # NoCard
        PROVE  card'[j].chat \in Chats
    <3>1. CASE j = k
      BY <2>1, <2>2, <3>1 DEF CardsTyped
    <3>2. CASE j # k
      BY <2>1, <2>3, <3>2 DEF CardsTyped
    <3>. QED  BY <3>1, <3>2
  <2>. QED  BY <2>1, <2>2, <2>3 DEF CardsTyped, NoCard, Fits
<1>3. CASE UNCHANGED <<card, clicks>>
  BY <1>3 DEF CardsTyped, Fits, NoCard
<1>4. CASE \E s \in Runs :
             \/ \E m \in Messages : Message(s, m)
             \/ \E k \in DOMAIN OtherCards : OtherClick(s, k)
             \/ BotMenu(s)
             \/ \E c \in Chats, b \in AllButtons : \E input \in Payloads(b) : Command(s, c, b, input)
             \/ Work(s) \/ CardNotSent(s) \/ OtherRunEnds(s)
  BY <1>3, <1>4 DEF Message, OtherClick, BotMenu, Command, Work, CardNotSent, OtherRunEnds
<1>5. CASE ComesToNothing \/ Restart \/ UNCHANGED vars
  BY <1>3, <1>5 DEF ComesToNothing, Restart, vars
<1>. QED  BY <1>1, <1>2, <1>4, <1>5 DEF Next

-----------------------------------------------------------------------------
(* A row that agrees with what the users said of it. *)
Whole(r, text) ==
  /\ r.requirementText = text
  /\ hasPlan(r) => hasRequirement(r)
  /\ hasPlan(r) /\ r.plan.of # r.requirementText => r.planStale \/ r.plan.notes # {}

(* A call that nobody has disturbed awaits with the row as it is. *)
ReadIsCurrent ==
  \A s \in Calls : call[s].pc = "awaiting" /\ s \notin disturbed =>
    call[s].read = row[call[s].chat]

LEMMA LoneIsWhole == LoneWorkIsWhole <=> \A c \in Chats \ torn : Whole(row[c], said[c])
  BY DEF LoneWorkIsWhole, Whole

LEMMA EmptyRowTyped == EmptyRow \in Rows /\ Whole(EmptyRow, {}) /\ PlanCounted(EmptyRow)
  BY DEF PlanCounted, EmptyRow, Rows, Texts, Plans, NoPlan, Whole, hasPlan

LEMMA RestingTyped == Resting \in CallRows /\ Resting.pc = "idle"
  BY EmptyRowTyped DEF Resting, CallRows, Given

(* What the store's operations leave of a row. *)
LEMMA RepositoriesAlone ==
  ASSUME NEW r \in Rows, NEW url \in Repos, NEW text, Whole(r, text)
  PROVE  Whole(addRepository(r, url), text) /\ Whole(removeRepository(r, url), text)
  BY DEF Rows, addRepository, removeRepository, Whole, hasPlan, hasRequirement

LEMMA RepositoriesTyped ==
  ASSUME NEW r \in Rows, NEW url \in Repos
  PROVE  /\ addRepository(r, url) \in Rows /\ removeRepository(r, url) \in Rows
         /\ PlanCounted(r) => PlanCounted(addRepository(r, url)) /\ PlanCounted(removeRepository(r, url))
  BY DEF Rows, addRepository, removeRepository, PlanCounted, hasPlan

LEMMA DeletedPlan ==
  ASSUME NEW r \in Rows
  PROVE  /\ deletePlan(r) \in Rows /\ ~ hasPlan(deletePlan(r)) /\ PlanCounted(deletePlan(r))
         /\ deletePlan(r).requirementText = r.requirementText
  BY DEF PlanCounted, Rows, deletePlan, Plans, Texts, NoPlan, hasPlan

LEMMA DeletedRequirement ==
  ASSUME NEW r \in Rows
  PROVE  /\ deleteRequirement(r) \in Rows /\ Whole(deleteRequirement(r), {})
         /\ PlanCounted(deleteRequirement(r))
<1>1. /\ deleteRequirement(r) \in Rows
      /\ deleteRequirement(r).requirementText = {} /\ deleteRequirement(r).plan = NoPlan
      /\ deleteRequirement(r).planVersion = 0
  BY DEF deleteRequirement, Rows, deletePlan, Plans, Texts, NoPlan
<1>. QED  BY <1>1 DEF Whole, hasPlan, PlanCounted

(* A new requirement: the plan that is there is marked stale. *)
LEMMA NewRequirement ==
  ASSUME NEW r \in Rows, NEW text \in Texts, text # {},
         NEW kept, kept = IF hasPlan(setRequirement(r, text)) THEN markPlanStale(setRequirement(r, text))
                                                              ELSE setRequirement(r, text)
  PROVE  kept \in Rows /\ Whole(kept, text) /\ (PlanCounted(r) => PlanCounted(kept))
<1>1. /\ setRequirement(r, text) \in Rows /\ setRequirement(r, text).requirementText = text
      /\ PlanCounted(r) => PlanCounted(setRequirement(r, text))
  <2>. DEFINE next == r.requirementVersion + 1
  <2>1. next \in Nat /\ setRequirement(r, text) =
          [r EXCEPT !.requirementText = text, !.requirementVersion = next]
    BY DEF setRequirement, Rows
  <2>. HIDE DEF next
  <2>. QED  BY <2>1 DEF Rows, PlanCounted, hasPlan
<1>2. CASE hasPlan(setRequirement(r, text))
  <2>1. /\ kept \in Rows /\ kept.requirementText = text /\ kept.planStale
        /\ PlanCounted(r) => PlanCounted(kept)
    BY <1>1, <1>2 DEF markPlanStale, Rows, PlanCounted, hasPlan
  <2>. QED  BY <2>1 DEF Whole, hasRequirement
<1>3. CASE ~ hasPlan(setRequirement(r, text))
  BY <1>1, <1>3 DEF Whole
<1>. QED  BY <1>2, <1>3

LEMMA NewPlan ==
  ASSUME NEW r \in Rows, NEW plan \in Plans
  PROVE  /\ setPlan(r, plan) \in Rows
         /\ plan # NoPlan => PlanCounted(setPlan(r, plan))
         /\ hasRequirement(r) /\ (plan.of = r.requirementText \/ plan.notes # {})
              => Whole(setPlan(r, plan), r.requirementText)
<1>. DEFINE next == r.planVersion + 1
            q    == [r EXCEPT !.plan = plan, !.planVersion = next, !.planStale = FALSE]
<1>1. next \in Nat /\ next # 0 /\ setPlan(r, plan) = q
  BY DEF setPlan, Rows
<1>. HIDE DEF next
<1>2. /\ q \in Rows /\ q.plan = plan /\ q.requirementText = r.requirementText
      /\ q.planVersion = next
  BY <1>1 DEF Rows
<1>. HIDE DEF q
<1>. QED  BY <1>1, <1>2 DEF Whole, hasRequirement, PlanCounted, hasPlan

-----------------------------------------------------------------------------
(* Every write of a row renders the row that it writes. *)
Writing(s, c, r, text) ==
  /\ r \in Rows /\ text \in Texts /\ PlanCounted(r)
  /\ Write(s, c, r)
  /\ said' = [said EXCEPT ![c] = text]
  /\ \E v \in {"main", "repo_manage"}, b \in AllButtons, input \in Given :
       view' = [view EXCEPT ![c] = v] /\ Render(s, c, b, input, v, r)

LoneInv == WorkbenchTyped /\ ReadIsCurrent /\ LoneWorkIsWhole

(* An action that changes the row at once leaves a row that is whole. *)
LEMMA ImmediateWrites ==
  ASSUME LoneInv, NEW s \in Calls, NEW c \in Chats, NEW b \in AllButtons, NEW input \in Given,
         Fits(b, input), HandleImmediate(s, c, b, input)
  PROVE  \E r, text : Writing(s, c, r, text) /\ (c \notin torn => Whole(r, text))
<1>. DEFINE r == CASE b = "add_repo"            -> addRepository(row[c], input)
                   [] b = "remove_repo"         -> removeRepository(row[c], input)
                   [] b = "delete_plan"         -> deletePlan(row[c])
                   [] b = "delete_requirement"  -> deleteRequirement(row[c])
                   [] OTHER                     -> row[c]
            text == IF b = "delete_requirement" THEN {} ELSE said[c]
<1>1. /\ b \in NeedsRepo => input \in Repos
      /\ Write(s, c, r) /\ view' = [view EXCEPT ![c] = ViewAfter(b)]
      /\ said' = IF b = "delete_requirement" THEN [said EXCEPT ![c] = {}] ELSE said
      /\ Render(s, c, b, input, ViewAfter(b), r)
  BY DEF HandleImmediate, Fits
<1>2. /\ row[c] \in Rows /\ PlanCounted(row[c]) /\ said[c] \in Texts
      /\ (c \notin torn => Whole(row[c], said[c]))
  BY LoneIsWhole DEF LoneInv, WorkbenchTyped
<1>3. ViewAfter(b) \in {"main", "repo_manage"}
  BY DEF ViewAfter
<1>4. said' = [said EXCEPT ![c] = text] /\ text \in Texts
  BY <1>1, <1>2 DEF LoneInv, WorkbenchTyped, Texts
<1>5. r \in Rows /\ PlanCounted(r) /\ (c \notin torn => Whole(r, text))
  <2>1. CASE b = "add_repo"
    BY <1>1, <1>2, <2>1, RepositoriesAlone, RepositoriesTyped DEF NeedsRepo
  <2>2. CASE b = "remove_repo"
    BY <1>1, <1>2, <2>2, RepositoriesAlone, RepositoriesTyped DEF NeedsRepo
  <2>3. CASE b = "delete_plan"
    <3>1. r = deletePlan(row[c]) /\ text = said[c]
      BY <2>3
    <3>. QED  BY <1>2, <3>1, DeletedPlan DEF Whole
  <2>4. CASE b = "delete_requirement"
    BY <1>2, <2>4, DeletedRequirement
  <2>5. CASE b \notin {"add_repo", "remove_repo", "delete_plan", "delete_requirement"}
    BY <1>2, <2>5
  <2>. QED  BY <2>1, <2>2, <2>3, <2>4, <2>5
<1>. HIDE DEF r, text
<1>. QED  BY <1>1, <1>3, <1>4, <1>5 DEF Writing

(* So does one that awaited undisturbed: what it read is what is there. *)
LEMMA AwaitedWrites ==
  ASSUME LoneInv, NEW s \in Calls, WorkbenchStep(s), ~ AwaitFails(s)
  PROVE  \E r, text : /\ Writing(s, call[s].chat, r, text)
                      /\ call[s].chat \notin torn' => Whole(r, text)
<1>. DEFINE c     == call[s].chat
            input == call[s].input
            read  == call[s].read
<1>1. /\ call[s].pc = "awaiting" /\ c \in Chats /\ call[s].button \in AllButtons
      /\ input \in Given /\ NoInput \in Given /\ read \in Rows
      /\ call[s].button \in NeedsText => input \in Inputs
      /\ Readable(call[s].button, read)
      /\ row[c] \in Rows /\ PlanCounted(row[c]) /\ said[c] \in Texts /\ view[c] \in {"main", "repo_manage"}
      /\ said \in [Chats -> Texts] /\ view \in [Chats -> {"main", "repo_manage"}]
  BY DEF WorkbenchStep, DiscussRequirement, ReviseRequirement, GeneratePlan, RevisePlan,
         LoneInv, WorkbenchTyped, CallRows, AllButtons, Given
<1>2. /\ view' = view => view' = [view EXCEPT ![c] = view[c]]
      /\ said' = said => said' = [said EXCEPT ![c] = said[c]]
  BY <1>1
<1>3. s \notin disturbed =>
        /\ read = row[c]
        /\ c \notin torn => Whole(row[c], said[c])
  BY <1>1, LoneIsWhole DEF LoneInv, ReadIsCurrent
<1>4. ASSUME NEW r, Write(s, c, r), c \notin torn', call[s].button # "discuss_requirement"
      PROVE  s \notin disturbed /\ c \notin torn
  BY <1>4 DEF Write
<1>5. CASE DiscussRequirement(s)
  <2>. DEFINE q == setRequirement(row[c], {input})
              r == IF hasPlan(q) THEN markPlanStale(q) ELSE q
  <2>1. {input} \in Texts /\ {input} # {}
    BY <1>1, <1>5 DEF DiscussRequirement, NeedsText, Texts
  <2>2. r \in Rows /\ Whole(r, {input}) /\ PlanCounted(r)
    <3>1. row[c] \in Rows /\ PlanCounted(row[c])
      BY <1>1
    <3>. QED  BY <2>1, <3>1, NewRequirement
  <2>3. /\ Write(s, c, r) /\ said' = [said EXCEPT ![c] = {input}] /\ view' = view
        /\ Render(s, c, call[s].button, input, view[c], r)
    BY <1>5 DEF DiscussRequirement
  <2>. HIDE DEF r
  <2>4. Writing(s, c, r, {input})
    BY <1>1, <1>2, <2>1, <2>2, <2>3 DEF Writing
  <2>. QED  BY <2>2, <2>4
<1>6. CASE ReviseRequirement(s)
  <2>. DEFINE t == read.requirementText \cup {input}
              q == setRequirement(row[c], t)
              r == IF hasPlan(q) THEN markPlanStale(q) ELSE q
              u == said[c] \cup {input}
  <2>1. t \in Texts /\ t # {} /\ u \in Texts
    BY <1>1, <1>6 DEF ReviseRequirement, NeedsText, Texts, Rows
  <2>2. r \in Rows /\ Whole(r, t) /\ PlanCounted(r)
    BY <1>1, <2>1, NewRequirement
  <2>3. /\ Write(s, c, r) /\ said' = [said EXCEPT ![c] = u] /\ view' = view
        /\ Render(s, c, call[s].button, input, view[c], r)
        /\ call[s].button # "discuss_requirement"
    BY <1>6 DEF ReviseRequirement
  <2>4. c \notin torn' => t = u
    BY <1>3, <1>4, <2>3 DEF Whole
  <2>. HIDE DEF r, t, u
  <2>5. Writing(s, c, r, u)
    BY <1>1, <1>2, <2>1, <2>2, <2>3 DEF Writing
  <2>. QED  BY <2>2, <2>4, <2>5
<1>7. CASE GeneratePlan(s)
  <2>. DEFINE p == [of |-> read.requirementText, notes |-> {}]
              r == setPlan(row[c], p)
  <2>1. p \in Plans
    BY <1>1 DEF Plans, Texts, Rows
  <2>2. /\ Write(s, c, r) /\ said' = said /\ view' = view
        /\ Render(s, c, call[s].button, NoInput, view[c], r)
        /\ call[s].button = "generate_plan"
    BY <1>7 DEF GeneratePlan
  <2>3. c \notin torn' => Whole(r, said[c])
    <3>. SUFFICES ASSUME c \notin torn'  PROVE  Whole(r, said[c])
      OBVIOUS
    <3>1. read = row[c] /\ Readable("generate_plan", read) /\ Whole(row[c], said[c])
      BY <1>1, <1>3, <1>4, <2>2
    <3>2. hasRequirement(row[c]) /\ p.of = row[c].requirementText
      BY <3>1 DEF Readable
    <3>. QED  BY <1>1, <2>1, <3>1, <3>2, NewPlan DEF Whole
  <2>4. r \in Rows /\ PlanCounted(r)
    <3>1. p # NoPlan
      BY <1>1, <2>2 DEF Readable, hasRequirement, NoPlan
    <3>. QED  BY <1>1, <2>1, <3>1, NewPlan
  <2>. HIDE DEF r
  <2>5. Writing(s, c, r, said[c])
    BY <1>1, <1>2, <2>2, <2>4 DEF Writing
  <2>. QED  BY <2>3, <2>5
<1>8. CASE RevisePlan(s)
  <2>. DEFINE p == [read.plan EXCEPT !.notes = @ \cup {input}]
              r == setPlan(row[c], p)
  <2>1. p \in Plans /\ p.notes # {}
    BY <1>1, <1>8 DEF RevisePlan, NeedsText, Plans, Texts, Rows
  <2>2. /\ Write(s, c, r) /\ said' = said /\ view' = view
        /\ Render(s, c, call[s].button, input, view[c], r)
        /\ call[s].button = "revise_plan"
    BY <1>8 DEF RevisePlan
  <2>3. c \notin torn' => Whole(r, said[c])
    <3>. SUFFICES ASSUME c \notin torn'  PROVE  Whole(r, said[c])
      OBVIOUS
    <3>1. read = row[c] /\ Readable("revise_plan", read) /\ Whole(row[c], said[c])
      BY <1>1, <1>3, <1>4, <2>2
    <3>2. hasRequirement(row[c])
      BY <3>1 DEF Readable
    <3>. QED  BY <1>1, <2>1, <3>1, <3>2, NewPlan DEF Whole
  <2>4. r \in Rows /\ PlanCounted(r)
    <3>1. p # NoPlan
      BY <2>1 DEF NoPlan
    <3>. QED  BY <1>1, <2>1, <3>1, NewPlan
  <2>. HIDE DEF r
  <2>5. Writing(s, c, r, said[c])
    BY <1>1, <1>2, <2>2, <2>4 DEF Writing
  <2>. QED  BY <2>3, <2>5
<1>. QED  BY <1>5, <1>6, <1>7, <1>8 DEF WorkbenchStep

-----------------------------------------------------------------------------
(* A call of the chat that saw another row is disturbed by the write of this one. *)
LEMMA WritingStep ==
  ASSUME LoneInv, NEW s \in Calls, NEW c \in Chats, NEW r, NEW text,
         Writing(s, c, r, text), c \notin torn' => Whole(r, text)
  PROVE  LoneInv' /\ call'[s].pc = "rendered" /\ call'[s].chat = c /\ call'[s].card.row = r
<1>1. PICK v \in {"main", "repo_manage"}, b \in AllButtons, input \in Given :
        view' = [view EXCEPT ![c] = v] /\ Render(s, c, b, input, v, r)
  BY DEF Writing
<1>. DEFINE x == [Resting EXCEPT !.pc = "rendered", !.chat = c, !.button = b,
                                 !.input = input, !.card = [view |-> v, row |-> r]]
<1>2. x \in CallRows /\ x.pc = "rendered" /\ x.chat = c /\ x.card.row = r
  BY <1>1, RestingTyped DEF Writing, CallRows
<1>3. call' = [call EXCEPT ![s] = x]
  BY <1>1 DEF Render
<1>. HIDE DEF x
<1>4. /\ row' = [row EXCEPT ![c] = r] /\ said' = [said EXCEPT ![c] = text]
      /\ r \in Rows /\ text \in Texts /\ PlanCounted(r)
      /\ torn \subseteq torn' /\ torn' \subseteq Chats /\ disturbed' \subseteq Calls
      /\ r # row[c] => \A o \in Calls \ {s} :
           call[o].pc = "awaiting" /\ call[o].chat = c => o \in disturbed'
      /\ \A o \in Calls \ {s} : o \in disturbed => o \in disturbed'
  BY DEF Writing, Write, LoneInv, WorkbenchTyped
<1>5. WorkbenchTyped'
  <2>1. \A d \in Chats : PlanCounted(row'[d])
    BY <1>4 DEF LoneInv, WorkbenchTyped
  <2>2. \A o \in Calls : call'[o] = x \/ call'[o] = call[o]
    BY <1>3 DEF LoneInv, WorkbenchTyped
  <2>. QED  BY <1>1, <1>2, <1>3, <1>4, <2>1, <2>2
       DEF LoneInv, WorkbenchTyped, PlanCounted, hasPlan, Readable, hasRequirement
<1>6. ReadIsCurrent'
  <2>. SUFFICES ASSUME NEW o \in Calls, call'[o].pc = "awaiting", o \notin disturbed'
                PROVE  call'[o].read = row'[call'[o].chat]
    BY DEF ReadIsCurrent
  <2>1. o # s /\ call'[o] = call[o] /\ o \notin disturbed /\ call[o].chat \in Chats
    BY <1>2, <1>3, <1>4 DEF LoneInv, WorkbenchTyped
  <2>2. call[o].read = row[call[o].chat]
    BY <2>1 DEF LoneInv, ReadIsCurrent
  <2>3. row'[call[o].chat] = row[call[o].chat]
    BY <1>4, <2>1 DEF LoneInv, WorkbenchTyped
  <2>. QED  BY <2>1, <2>2, <2>3
<1>7. LoneWorkIsWhole'
  <2>1. ASSUME NEW d \in Chats \ torn'
        PROVE  Whole(row'[d], said'[d])
    <3>1. CASE d = c
      BY <1>4, <3>1 DEF LoneInv, WorkbenchTyped
    <3>2. CASE d # c
      BY <1>4, <3>2, LoneIsWhole DEF LoneInv, WorkbenchTyped
    <3>. QED  BY <3>1, <3>2
  <2>. QED  BY <2>1 DEF LoneWorkIsWhole, Whole, hasPlan, hasRequirement
<1>8. call'[s].pc = "rendered" /\ call'[s].chat = c /\ call'[s].card.row = r
  BY <1>2, <1>3 DEF LoneInv, WorkbenchTyped
<1>. QED  BY <1>5, <1>6, <1>7, <1>8 DEF LoneInv

(* A call that begins to await reads the row; the others stay as they are. *)
LEMMA HandleAwaitingStep ==
  ASSUME LoneInv, NEW s \in Calls, NEW c \in Chats, NEW b \in AllButtons, NEW input \in Given,
         Fits(b, input), HandleAwaiting(s, c, b, input)
  PROVE  LoneInv'
<1>. DEFINE x == [Resting EXCEPT !.pc = "awaiting", !.chat = c, !.button = b,
                                 !.input = input, !.read = row[c]]
<1>1. /\ b \in Awaiting /\ (b \in NeedsText => input \in Inputs)
      /\ Readable(b, row[c])
      /\ view' = [view EXCEPT ![c] = "main"] /\ call' = [call EXCEPT ![s] = x]
      /\ disturbed' = disturbed \ {s}
      /\ row' = row /\ said' = said /\ torn' = torn
  BY DEF HandleAwaiting, Fits
<1>2. /\ x \in CallRows /\ x.pc = "awaiting" /\ x.chat = c /\ x.button = b /\ x.input = input
      /\ x.read = row[c]
  BY RestingTyped DEF LoneInv, WorkbenchTyped, CallRows
<1>. HIDE DEF x
<1>3. WorkbenchTyped'
  BY <1>1, <1>2 DEF LoneInv, WorkbenchTyped
<1>4. ReadIsCurrent'
  <2>. SUFFICES ASSUME NEW o \in Calls, call'[o].pc = "awaiting", o \notin disturbed'
                PROVE  call'[o].read = row'[call'[o].chat]
    BY DEF ReadIsCurrent
  <2>1. CASE o = s
    BY <1>1, <1>2, <2>1 DEF LoneInv, WorkbenchTyped
  <2>2. CASE o # s
    BY <1>1, <2>2 DEF LoneInv, WorkbenchTyped, ReadIsCurrent
  <2>. QED  BY <2>1, <2>2
<1>5. LoneWorkIsWhole'
  BY <1>1 DEF LoneInv, LoneWorkIsWhole
<1>. QED  BY <1>3, <1>4, <1>5 DEF LoneInv

(* A call that shows, throws, fails or returns awaits no longer and writes nothing. *)
LEMMA QuietStep ==
  ASSUME LoneInv, NEW s \in Calls, NEW x \in CallRows, x.pc # "awaiting",
         x.pc # "idle" => x.chat \in Chats,
         call' = [call EXCEPT ![s] = x], UNCHANGED <<row, said, torn>>,
         disturbed \ {s} \subseteq disturbed', disturbed' \subseteq Calls,
         view' \in [Chats -> {"main", "repo_manage"}]
  PROVE  LoneInv'
<1>1. WorkbenchTyped'
  BY DEF LoneInv, WorkbenchTyped
<1>2. ReadIsCurrent'
  <2>. SUFFICES ASSUME NEW o \in Calls, call'[o].pc = "awaiting", o \notin disturbed'
                PROVE  call'[o].read = row'[call'[o].chat]
    BY DEF ReadIsCurrent
  <2>1. o # s /\ call'[o] = call[o] /\ o \notin disturbed
    BY DEF LoneInv, WorkbenchTyped
  <2>. QED  BY <2>1 DEF LoneInv, ReadIsCurrent
<1>3. LoneWorkIsWhole'
  BY DEF LoneInv, LoneWorkIsWhole
<1>. QED  BY <1>1, <1>2, <1>3 DEF LoneInv

(* The quiet steps, one by one. *)
LEMMA GetCardStep ==
  ASSUME LoneInv, NEW s \in Calls, NEW c \in Chats, getCard(s, c)
  PROVE  LoneInv'
<1>. DEFINE x == [Resting EXCEPT !.pc = "rendered", !.chat = c, !.button = "none",
                                 !.input = NoInput, !.card = [view |-> view[c], row |-> row[c]]]
<1>1. /\ call' = [call EXCEPT ![s] = x] /\ UNCHANGED <<row, said, torn>> /\ view' = view
      /\ disturbed' = disturbed
  BY DEF getCard, Render
<1>2. x \in CallRows /\ x.pc = "rendered" /\ x.chat = c
  BY RestingTyped DEF LoneInv, WorkbenchTyped, CallRows, Given
<1>. HIDE DEF x
<1>. QED  BY <1>1, <1>2, QuietStep DEF LoneInv, WorkbenchTyped

LEMMA HandleThrowsStep ==
  ASSUME LoneInv, NEW s \in Calls, NEW c \in Chats, NEW b \in AllButtons, NEW input,
         HandleThrows(s, c, b, input)
  PROVE  LoneInv'
<1>. DEFINE x == [Resting EXCEPT !.pc = "thrown", !.chat = c, !.button = b]
<1>1. /\ call' = [call EXCEPT ![s] = x] /\ UNCHANGED <<row, said, torn>>
      /\ disturbed' = disturbed
      /\ view' = view \/ view' = [view EXCEPT ![c] = "main"]
  BY DEF HandleThrows
<1>2. x \in CallRows /\ x.pc = "thrown" /\ x.chat = c
  BY RestingTyped DEF CallRows
<1>3. view' \in [Chats -> {"main", "repo_manage"}]
  BY <1>1 DEF LoneInv, WorkbenchTyped
<1>. HIDE DEF x
<1>4. disturbed' \subseteq Calls
  BY <1>1 DEF LoneInv, WorkbenchTyped
<1>. QED  BY <1>1, <1>2, <1>3, <1>4, QuietStep

LEMMA CallEndsStep ==
  ASSUME LoneInv, NEW s \in Calls, AwaitFails(s) \/ Return(s)
  PROVE  LoneInv' /\ row' = row
<1>1. CASE AwaitFails(s)
  <2>. DEFINE x == [Resting EXCEPT !.pc = "thrown", !.chat = call[s].chat, !.button = call[s].button]
  <2>1. /\ call' = [call EXCEPT ![s] = x] /\ UNCHANGED <<row, said, torn>>
        /\ disturbed' = disturbed \ {s} /\ view' = view /\ call[s].pc = "awaiting"
    BY <1>1 DEF AwaitFails
  <2>2. x \in CallRows /\ x.pc = "thrown" /\ x.chat \in Chats
    BY <2>1, RestingTyped DEF LoneInv, WorkbenchTyped, CallRows
  <2>. HIDE DEF x
  <2>. QED  BY <2>1, <2>2, QuietStep DEF LoneInv, WorkbenchTyped
<1>2. CASE Return(s)
  <2>1. /\ call' = [call EXCEPT ![s] = Resting] /\ UNCHANGED <<row, said, torn>>
        /\ disturbed' = disturbed /\ view' = view
    BY <1>2 DEF Return
  <2>. QED  BY <2>1, RestingTyped, QuietStep DEF LoneInv, WorkbenchTyped
<1>. QED  BY <1>1, <1>2

LEMMA WorkbenchDiesStep ==
  ASSUME LoneInv, WorkbenchDies
  PROVE  LoneInv' /\ row' = row
<1>1. /\ view' = [c \in Chats |-> "main"] /\ call' = [s \in Calls |-> Resting]
      /\ UNCHANGED <<row, said, torn>> /\ disturbed' = {}
  BY DEF WorkbenchDies
<1>2. WorkbenchTyped'
  BY <1>1, RestingTyped DEF LoneInv, WorkbenchTyped, PlanCounted, hasPlan
<1>3. ReadIsCurrent'
  BY <1>1, RestingTyped DEF ReadIsCurrent
<1>4. LoneWorkIsWhole'
  BY <1>1 DEF LoneInv, LoneWorkIsWhole
<1>. QED  BY <1>1, <1>2, <1>3, <1>4 DEF LoneInv

(* A step keeps the invariant, and who changes a row shows it. *)
Shown == \A c \in Chats : row'[c] # row[c] =>
           \E s \in Runs : call'[s].pc = "rendered" /\ call'[s].chat = c /\ call'[s].card.row = row'[c]

LEMMA WrittenIsShown ==
  ASSUME LoneInv, NEW s \in Calls, NEW c \in Chats, NEW r, NEW text,
         Writing(s, c, r, text), c \notin torn' => Whole(r, text)
  PROVE  LoneInv' /\ Shown
<1>1. row' = [row EXCEPT ![c] = r]
  BY DEF Writing, Write
<1>2. LoneInv' /\ call'[s].pc = "rendered" /\ call'[s].chat = c /\ call'[s].card.row = r
  BY WritingStep
<1>. QED  BY <1>1, <1>2, CompositionAssumption
     DEF Shown, LoneInv, WorkbenchTyped, CompositionAssumption

LEMMA LoneStep ==
  ASSUME LoneInv, CardsTyped, [Next]_vars
  PROVE  LoneInv' /\ Shown
<1>1. row' = row => Shown
  BY DEF Shown
<1>2. CASE \E s \in Calls, c \in Chats : getCard(s, c)
  BY <1>1, <1>2, GetCardStep DEF getCard
<1>3. ASSUME NEW s \in Calls, NEW c \in Chats, NEW b \in AllButtons, NEW input \in Given,
             Fits(b, input), Handle(s, c, b, input)
      PROVE  LoneInv' /\ Shown
  <2>1. CASE HandleImmediate(s, c, b, input)
    <3>1. PICK r, text : Writing(s, c, r, text) /\ (c \notin torn => Whole(r, text))
      BY <1>3, <2>1, ImmediateWrites
    <3>2. torn \subseteq torn'
      BY <3>1 DEF Writing, Write
    <3>. QED  BY <3>1, <3>2, WrittenIsShown
  <2>2. CASE HandleAwaiting(s, c, b, input)
    BY <1>1, <1>3, <2>2, HandleAwaitingStep DEF HandleAwaiting
  <2>3. CASE HandleThrows(s, c, b, input)
    BY <1>1, <2>3, HandleThrowsStep DEF HandleThrows
  <2>. QED  BY <1>3, <2>1, <2>2, <2>3 DEF Handle
<1>4. ASSUME NEW s \in Calls, WorkbenchStep(s), ~ AwaitFails(s)
      PROVE  LoneInv' /\ Shown
  <2>1. call[s].chat \in Chats
    BY <1>4 DEF WorkbenchStep, DiscussRequirement, ReviseRequirement, GeneratePlan, RevisePlan,
                LoneInv, WorkbenchTyped
  <2>2. PICK r, text : /\ Writing(s, call[s].chat, r, text)
                       /\ call[s].chat \notin torn' => Whole(r, text)
    BY <1>4, AwaitedWrites
  <2>. QED  BY <2>1, <2>2, WrittenIsShown
<1>5. CASE \E s \in Calls : AwaitFails(s) \/ Return(s)
  BY <1>1, <1>5, CallEndsStep
<1>6. CASE WorkbenchDies
  BY <1>1, <1>6, WorkbenchDiesStep
<1>7. CASE UNCHANGED workbenchVars
  <2>1. LoneInv'
    BY <1>7 DEF workbenchVars, LoneInv, WorkbenchTyped, ReadIsCurrent, Readable, LoneWorkIsWhole,
                hasPlan, hasRequirement
  <2>. QED  BY <1>1, <1>7, <2>1 DEF workbenchVars
<1>. QED  BY <1>2, <1>3, <1>4, <1>5, <1>6, <1>7, WorkbenchMoves

(* The invariants hold of every behaviour. *)
LEMMA WorkbenchAlways == Spec => [](LoneInv /\ CardsTyped)
<1>1. Init => LoneInv /\ CardsTyped
  <2>. SUFFICES ASSUME Init  PROVE  LoneInv /\ CardsTyped
    OBVIOUS
  <2>1. WorkbenchTyped
    BY EmptyRowTyped, RestingTyped DEF Init, WorkbenchInit, WorkbenchTyped, Texts
  <2>2. ReadIsCurrent
    BY RestingTyped DEF Init, WorkbenchInit, ReadIsCurrent
  <2>3. \A c \in Chats \ torn : Whole(row[c], said[c])
    BY EmptyRowTyped DEF Init, WorkbenchInit
  <2>4. CardsTyped
    BY DEF Init, CardsTyped, NoCard
  <2>. QED  BY <2>1, <2>2, <2>3, <2>4, LoneIsWhole DEF LoneInv
<1>2. LoneInv /\ CardsTyped /\ [Next]_vars => LoneInv' /\ CardsTyped'
  BY LoneStep, CardsStep DEF LoneInv
<1>. QED  BY <1>1, <1>2, PTL DEF Spec

(***************************************************************************)
(* A call that waits for minutes and then writes does so over the row it   *)
(* read, or the chat is among those a disturbed call has written: in the   *)
(* others nobody's feedback is lost, no plan outlives its requirement and  *)
(* a plan of another text is known as such (LoneWorkIsWhole).              *)
(***************************************************************************)
THEOREM UndisturbedWorkIsWhole == Spec => []LoneWorkIsWhole
<1>1. LoneInv /\ CardsTyped => LoneWorkIsWhole
  BY DEF LoneInv
<1>. QED  BY <1>1, WorkbenchAlways, PTL

(***************************************************************************)
(* No step changes a row without the call that made it having a card of    *)
(* the new row to send (ChangesAreShown).                                  *)
(***************************************************************************)
THEOREM ChangesHaveACard == Spec => ChangesAreShown
<1>1. LoneInv /\ CardsTyped /\ [Next]_vars => [Shown]_vars
  BY LoneStep
<1>2. [Shown]_vars =>
        [\A c \in Chats : row'[c] # row[c] =>
           \E s \in Runs : call'[s].pc = "rendered" /\ call'[s].chat = c
                        /\ call'[s].card.row = row'[c]]_vars
  BY DEF Shown
<1>. QED  BY <1>1, <1>2, WorkbenchAlways, PTL DEF Spec, ChangesAreShown

-----------------------------------------------------------------------------
(* Min of a set of resolvers is one of them. *)
LEMMA FirstExists ==
  ASSUME NEW I, I \subseteq 1 .. 7, I # {}
  PROVE  Min(I) \in I
<1>1. ASSUME NEW n \in 1 .. 7, n \in I, \A k \in 1 .. 7 : k < n => k \notin I
      PROVE  Min(I) \in I
  <2>1. \A k \in I : n =< k
    BY <1>1
  <2>. QED  BY <1>1, <2>1 DEF Min
<1>2. \/ 1 \in I \/ 2 \in I \/ 3 \in I \/ 4 \in I \/ 5 \in I \/ 6 \in I \/ 7 \in I
  <2>1. PICK n \in 1 .. 7 : n \in I
    OBVIOUS
  <2>2. n \in {1, 2, 3, 4, 5, 6, 7}
    OBVIOUS
  <2>. QED  BY <2>1, <2>2
<1>3. \E n \in 1 .. 7 : n \in I /\ \A k \in 1 .. 7 : k < n => k \notin I
  BY <1>2
<1>. QED  BY <1>1, <1>3

(* Every class of event has a resolver, and every resolver a definition. *)
LEMMA ResolverFound ==
  ASSUME NEW class \in Classes
  PROVE  \E k \in 1 .. 7 : Resolve(class) = Resolvers[k].id
<1>. DEFINE Claiming == {k \in 1 .. Len(Resolvers) : class \in Resolvers[k].claims}
<1>1. Len(Resolvers) = 7
  BY DEF Resolvers
<1>2. Claiming # {}
  <2>1. CASE class = "workbench_click"
    <3>1. 1 \in Claiming
      BY <1>1, <2>1 DEF Resolvers
    <3>. QED  BY <3>1
  <2>2. CASE class \in MessageClasses
    <3>1. 2 \in Claiming
      BY <1>1, <2>2 DEF Resolvers
    <3>. QED  BY <3>1
  <2>3. CASE class \in ClickClasses
    <3>1. 6 \in Claiming
      BY <1>1, <2>3 DEF Resolvers
    <3>. QED  BY <3>1
  <2>4. CASE class = "menu"
    <3>1. 7 \in Claiming
      BY <1>1, <2>4 DEF Resolvers
    <3>. QED  BY <3>1
  <2>. QED  BY <2>1, <2>2, <2>3, <2>4 DEF Classes
<1>3. Resolve(class) = Resolvers[Min(Claiming)].id
  BY <1>2 DEF Resolve, SelectInSeq
<1>4. Min(Claiming) \in Claiming
  BY <1>1, <1>2, FirstExists DEF Min
<1>. QED  BY <1>1, <1>3, <1>4

LEMMA DefinitionFound ==
  ASSUME NEW class \in Classes
  PROVE  DefinitionFor(class) \in Definitions
<1>1. PICK k \in 1 .. 7 : Resolve(class) = Resolvers[k].id
  BY ResolverFound
<1>2. Resolve(class) \in {"workbench-card-action", "workbench-card", "feishu-requirement-message",
                          "feishu-requirement-card-action", "feishu-message",
                          "feishu-card-action-generic", "feishu-bot-menu"}
  BY <1>1 DEF Resolvers
<1>. DEFINE q == Resolve(class)
<1>3. CASE q \in {"workbench-card-action", "workbench-card"}
  BY <1>3 DEF DefinitionFor, Definitions
<1>4. CASE q \in {"feishu-requirement-message", "feishu-requirement-card-action"}
  BY <1>4 DEF DefinitionFor, Definitions
<1>5. CASE q = "feishu-message" /\ class = "slash_command"
  BY <1>5 DEF DefinitionFor, Definitions
<1>6. CASE q = "feishu-card-action-generic"
  BY <1>6 DEF DefinitionFor, Definitions
<1>7. CASE q = "feishu-bot-menu" \/ (q = "feishu-message" /\ class # "slash_command")
  BY <1>7 DEF DefinitionFor, Definitions
<1>. QED  BY <1>2, <1>3, <1>4, <1>5, <1>6, <1>7

RunsTyped ==
  /\ run \in [Runs -> [def : Definitions \cup {"none"},
                       of : Messages \cup CardIds \cup {"menu", NoEvent}]]
  /\ diagnosed \subseteq Messages \cup CardIds \cup {"menu"}
  /\ events \in 0 .. MaxEvents

LEMMA RunsStep ==
  ASSUME RunsTyped, [Next]_vars
  PROVE  RunsTyped'
<1>. USE CompositionAssumption, ConnectionAssumption DEF CompositionAssumption, ConnectionAssumption
<1>1. ASSUME NEW s \in Runs, NEW id \in Messages \cup CardIds \cup {"menu"}, NEW class \in Classes,
             Started(s, id, class, "member"), Counted
      PROVE  RunsTyped'
  BY <1>1, DefinitionFound DEF Started, Counted, RunsTyped
<1>2. ASSUME UNCHANGED <<run, diagnosed>>, Counted \/ UNCHANGED events
      PROVE  RunsTyped'
  BY <1>2 DEF RunsTyped, Counted
<1>3. ASSUME NEW s \in Runs, RunEnds(s), UNCHANGED events
      PROVE  RunsTyped'
  BY <1>3 DEF RunEnds, RunsTyped, Idle
<1>4. ASSUME NEW s \in Runs, NEW m \in Messages, Message(s, m)
      PROVE  RunsTyped'
  BY <1>1, <1>4 DEF Message, MessageStarts, Classes, Foreign
<1>5. ASSUME NEW s \in Runs, NEW k \in CardIds, NEW class \in ClickClasses,
             ClickStarts(s, k, class), Counted
      PROVE  RunsTyped'
  BY <1>1, <1>5 DEF ClickStarts, Classes
<1>6. CASE \E s \in Runs : \E k \in CardIds, b \in AllButtons, input \in Repos \cup {NoInput} :
             Click(s, k, b, input)
  BY <1>5, <1>6 DEF Click, ClickClasses
<1>7. CASE \E s \in Runs : \E k \in DOMAIN OtherCards : OtherClick(s, k)
  BY <1>5, <1>7 DEF OtherClick
<1>8. CASE \E s \in Runs : BotMenu(s)
  BY <1>1, <1>8 DEF BotMenu, Menu, Classes
<1>9. CASE \E s \in Runs : \E c \in Chats, b \in AllButtons : \E input \in Payloads(b) :
             Command(s, c, b, input)
  BY <1>2, <1>9 DEF Command, connectionVars
<1>10. CASE \E s \in Runs : Work(s) \/ CardSent(s) \/ CardNotSent(s) \/ OtherRunEnds(s)
  BY <1>2, <1>3, <1>10 DEF Work, CardSent, CardNotSent, OtherRunEnds, Ends, connectionVars
<1>11. CASE ComesToNothing
  <2>1. Counted /\ UNCHANGED run
    BY <1>11 DEF ComesToNothing, MessageRefused, ClickRefused, Refused, TurnedAway
  <2>2. PICK id \in Messages \cup CardIds : diagnosed' \in {diagnosed, diagnosed \cup {id}}
    BY <1>11 DEF ComesToNothing, MessageRefused, ClickRefused, Refused, TurnedAway
  <2>. QED  BY <2>1, <2>2 DEF RunsTyped, Counted
<1>12. CASE Restart
  BY <1>12 DEF Restart, ConnectionDies, Counted, RunsTyped, Idle
<1>13. CASE UNCHANGED vars
  BY <1>2, <1>13 DEF vars, connectionVars
<1>. QED  BY <1>4, <1>6, <1>7, <1>8, <1>9, <1>10, <1>11, <1>12, <1>13 DEF Next

(* Rows, calls, runs and cards are of the kinds the code knows. *)
THEOREM WorkbenchTypeCorrect == Spec => []TypeOK
<1>1. Init => RunsTyped
  BY CompositionAssumption DEF Init, ConnectionInit, RunsTyped, Idle, CompositionAssumption
<1>2. LoneInv /\ RunsTyped => TypeOK
  BY CompositionAssumption
  DEF LoneInv, WorkbenchTyped, RunsTyped, TypeOK, CallRows, PlanCounted, CompositionAssumption
<1>. QED  BY <1>1, <1>2, RunsStep, WorkbenchAlways, PTL DEF Spec
=============================================================================
