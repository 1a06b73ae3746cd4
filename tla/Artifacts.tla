----------------------------- MODULE Artifacts -----------------------------
(***************************************************************************)
(* Artifacts of src/core/artifacts: a row in SQLite and a file beside it,  *)
(* written by ArtifactService and removed by the passes of                 *)
(* ArtifactRetentionService.  The file is written before the row, and      *)
(* removed before the row is marked, with an await around each.            *)
(***************************************************************************)
EXTENDS FiniteSets

CONSTANTS
  ArtifactIds,
  NoArtifact

VARIABLES
  row,      \* artifacts: absent, live, expired or deleted (content_type)
  pinned,   \* the artifacts with pinned = 1
  aged,     \* the artifacts whose retention days are over
  file,     \* the artifacts whose file exists
  pass,     \* the retention pass under way
  spared    \* history: pinned since before the pass under way read its list

artifactVars == <<row, pinned, aged, file, pass, spared>>

RowStates == {"absent", "live", "expired", "deleted"}
PassKinds == {"deleteExpired", "purgeOrphaned", "purgeExpired"}
NoPass    == [kind |-> "none", todo |-> {}, at |-> NoArtifact]

ArtifactInit ==
  /\ row = [a \in ArtifactIds |-> "absent"]
  /\ pinned = {} /\ aged = {} /\ file = {} /\ spared = {}
  /\ pass = NoPass

-----------------------------------------------------------------------------
WriteFile(a) == file' = file \cup {a} /\ UNCHANGED <<row, pinned, aged, pass, spared>>

(* insert: the primary key refuses a second row of the id. *)
InsertRow(a) ==
  /\ row[a] = "absent"
  /\ row' = [row EXCEPT ![a] = "live"]
  /\ pinned' = pinned \ {a} /\ aged' = aged \ {a} /\ spared' = spared \ {a}
  /\ UNCHANGED <<file, pass>>

SetPinned(a, value) ==
  /\ row[a] # "absent"
  /\ pinned' = IF value THEN pinned \cup {a} ELSE pinned \ {a}
  /\ spared' = IF value /\ pass = NoPass THEN spared \cup {a}
               ELSE IF value THEN spared ELSE spared \ {a}
  /\ UNCHANGED <<row, aged, file, pass>>

Age(a) ==
  /\ row[a] # "absent" /\ a \notin aged
  /\ aged' = aged \cup {a}
  /\ UNCHANGED <<row, pinned, file, pass, spared>>

-----------------------------------------------------------------------------
listExpired         == {a \in ArtifactIds : row[a] = "live" /\ a \in aged /\ a \notin pinned}
listOrphaned        == {a \in ArtifactIds : row[a] \in {"expired", "deleted"}}
listExpiredUnpinned == {a \in ArtifactIds : row[a] \in {"live", "expired"} /\ a \notin pinned}

(* Mutant: pinned artifacts are listed as well. *)
CandidatesWithPinned(kind) ==
  {a \in ArtifactIds : row[a] = "live" /\ a \in aged /\ kind # "none"}

Candidates(kind) ==
  CASE kind = "deleteExpired" -> listExpired
    [] kind = "purgeOrphaned" -> listOrphaned
    [] kind = "purgeExpired"  -> listExpiredUnpinned

(* A pass works through the list it read at its start. *)
StartPass(kind) ==
  /\ pass = NoPass /\ Candidates(kind) # {}
  /\ pass' = [NoPass EXCEPT !.kind = kind, !.todo = Candidates(kind)]
  /\ spared' = pinned
  /\ UNCHANGED <<row, pinned, aged, file>>

Unlink(a) ==
  /\ a \in pass.todo /\ pass.at = NoArtifact /\ a \in file
  /\ file' = file \ {a}
  /\ pass' = [pass EXCEPT !.at = a]
  /\ UNCHANGED <<row, pinned, aged, spared>>

Mark(a) ==
  row' = [row EXCEPT ![a] = CASE pass.kind = "deleteExpired" -> "expired"
                              [] pass.kind = "purgeExpired"  -> "deleted"
                              [] pass.kind = "purgeOrphaned" -> "absent"]

(* After the file is gone, or when there was none, the row is marked. *)
MarkAndMoveOn(a) ==
  /\ a \in pass.todo
  /\ pass.at = a \/ (pass.at = NoArtifact /\ a \notin file)
  /\ Mark(a)
  /\ pass' = IF pass.todo = {a} THEN NoPass
             ELSE [pass EXCEPT !.todo = @ \ {a}, !.at = NoArtifact]
  /\ UNCHANGED <<pinned, aged, file, spared>>

PassDies == pass' = NoPass

(* What an operator or the clock does, and what a pass then does. *)
ArtifactCommand ==
  \/ \E a \in ArtifactIds, value \in BOOLEAN : SetPinned(a, value)
  \/ \E a \in ArtifactIds : Age(a)
  \/ \E kind \in PassKinds : StartPass(kind)

PassStep == \E a \in ArtifactIds : Unlink(a) \/ MarkAndMoveOn(a)
=============================================================================
