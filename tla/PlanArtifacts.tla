---------------------------- MODULE PlanArtifacts ----------------------------
(***************************************************************************)
(* The versions of a plan, src/features/workbench: PlanArtifactService     *)
(* writes a version's file, its cloud document and its row; the row's      *)
(* status is changed by PlanArtifactStore, in every version of the plan    *)
(* that has the status the caller expects, or by markStatus() in one       *)
(* version whatever its status. A revision awaits its agent for minutes    *)
(* between reading the latest version and recording the next.              *)
(*                                                                         *)
(* The store is constructed at boot, but nothing in src/ calls it or       *)
(* constructs the service yet: only their tests do. So the callers here    *)
(* make any call at any time, from any status to any other.                *)
(***************************************************************************)
EXTENDS Naturals, FiniteSets, FiniteSetsExt, Sequences

CONSTANTS
  Revisions,    \* calls of createInitialPlan() and revisePlan() at a time
  Notes,        \* revision notes, one for each call that gives one
  Used,         \* statuses that callers expect and set
  Rounds,       \* iterations that callers write notes about
  MaxVersion,   \* bound on the versions of the plan
  MaxSteps      \* bound on the calls

Statuses == {"pending_review", "pending_base", "approved", "executing", "completed",
             "pushed", "cancelled", "cleaned", "failed"}

ASSUME PlanAssumption ==
  /\ MaxVersion \in Nat \ {0} /\ MaxSteps \in Nat
  /\ Used \subseteq Statuses /\ Rounds \subseteq Nat \ {0}

VARIABLES
  artifact,  \* plan_artifacts, by version
  file,      \* plan-v<N>.md, by version
  revision,  \* the calls in progress
  doc,       \* history: the content of the cloud document a row links
  noted,     \* history: the notes appended to the plan, each by its iteration
  parted,    \* history: a version was recorded after a note ("notes"); or after another
             \* version had changed, or one version was marked by itself ("rows")
  steps

planVars == <<artifact, file, revision, doc, noted, parted, steps>>

Versions == 1 .. MaxVersion
Contents == SUBSET Notes     \* the notes that went into a plan

Absent == [status |-> "absent", iteration |-> 0, notes |-> << >>]
NoFile == [written |-> FALSE, content |-> {}]
NoRevision == [pc |-> "idle", version |-> 0, content |-> {}]

Recorded == {v \in Versions : artifact[v] # Absent}
latest   == Max(Recorded)

PlanInit ==
  /\ artifact = [v \in Versions |-> Absent]
  /\ file = [v \in Versions |-> NoFile]
  /\ revision = [c \in Revisions |-> NoRevision]
  /\ doc = [v \in Versions |-> {}]
  /\ noted = << >> /\ parted = {} /\ steps = 0

Stepped == steps < MaxSteps /\ steps' = steps + 1
Working == {c \in Revisions : revision[c].pc # "idle"}

(* A version as it is recorded. *)
FreshRow == [status |-> "pending_review", iteration |-> 1, notes |-> << >>]

-----------------------------------------------------------------------------
(* createInitialPlan: a fresh plan id, version 1. *)
CreateInitial(c) ==
  /\ Stepped
  /\ Recorded = {} /\ Working = {} /\ ~ file[1].written
  /\ revision' = [revision EXCEPT ![c] = [pc |-> "uploading", version |-> 1, content |-> {}]]
  /\ file' = [file EXCEPT ![1] = [written |-> TRUE, content |-> {}]]
  /\ UNCHANGED <<artifact, doc, noted, parted>>

(* revisePlan reads the latest row and its file. *)
Revise(c, note) ==
  /\ Stepped
  /\ revision[c] = NoRevision /\ Recorded # {} /\ latest < MaxVersion
  /\ revision' = [revision EXCEPT ![c] =
       [pc |-> "revising", version |-> latest + 1, content |-> file[latest].content \cup {note}]]
  /\ UNCHANGED <<artifact, file, doc, noted, parted>>

(* The agent has answered; the local file is written before the document. *)
WriteFile(c) ==
  /\ revision[c].pc = "revising"
  /\ file' = [file EXCEPT ![revision[c].version] =
                [written |-> TRUE, content |-> revision[c].content]]
  /\ revision' = [revision EXCEPT ![c].pc = "uploading"]
  /\ UNCHANGED <<artifact, doc, noted, parted, steps>>

(* Mutant: a version that is there already is replaced. *)
createVersionReplaces(v) == artifact' = [artifact EXCEPT ![v] = FreshRow]
(* The primary key is the plan id with the version. *)
createVersion(v) ==
  /\ artifact[v] = Absent
  /\ artifact' = [artifact EXCEPT ![v] = FreshRow]

Record(c) ==
  /\ revision[c].pc = "uploading"
  /\ createVersion(revision[c].version)
  /\ doc' = [doc EXCEPT ![revision[c].version] = revision[c].content]
  /\ revision' = [revision EXCEPT ![c] = NoRevision]
  /\ parted' = parted \cup (IF noted # << >> THEN {"notes"} ELSE {})
                     \cup (IF \E v \in Recorded : artifact[v] # FreshRow THEN {"rows"} ELSE {})
  /\ UNCHANGED <<file, noted, steps>>

(* The agent, the document or the insert fails, or the process dies. *)
RevisionFails(c) ==
  /\ revision[c].pc # "idle"
  /\ revision' = [revision EXCEPT ![c] = NoRevision]
  /\ UNCHANGED <<artifact, file, doc, noted, parted, steps>>

-----------------------------------------------------------------------------
(* Mutant: only the latest version is updated. *)
ExpectedLatest(status) == {v \in Recorded : v = latest /\ artifact[v].status = status}
(* where plan_id = ... and status = expectedStatus: of every version. *)
Expected(status) == {v \in Recorded : artifact[v].status = status}

(* setStatus, setBaseBranch, setExecution and setHeadInfo: one update of all that is   *)
(* expected, and no row changed is a state conflict.                                    *)
Move(from, to) ==
  /\ Stepped
  /\ Expected(from) # {}
  /\ artifact' = [v \in Versions |->
       IF v \in Expected(from) THEN [artifact[v] EXCEPT !.status = to] ELSE artifact[v]]
  /\ UNCHANGED <<file, revision, doc, noted, parted>>

(* One version, whatever its status; one that is not there throws. *)
markStatus(v, status) ==
  /\ Stepped
  /\ v \in Recorded
  /\ artifact' = [artifact EXCEPT ![v].status = status]
  /\ parted' = parted \cup {"rows"}
  /\ UNCHANGED <<file, revision, doc, noted>>

(* bumpIteration reads the latest version, in one transaction with its update. *)
bumpIteration(from, to) ==
  /\ Stepped
  /\ Recorded # {} /\ artifact[latest].status = from
  /\ artifact' = [v \in Versions |->
       IF v \in Expected(from)
       THEN [artifact[v] EXCEPT !.status = to, !.iteration = artifact[latest].iteration + 1]
       ELSE artifact[v]]
  /\ UNCHANGED <<file, revision, doc, noted, parted>>

(* The array of the latest version, extended, is written to every version. *)
appendIterationNote(round) ==
  /\ Stepped
  /\ Recorded # {}
  /\ artifact' = [v \in Versions |->
       IF v \in Recorded
       THEN [artifact[v] EXCEPT !.notes = Append(artifact[latest].notes, round), !.iteration = round]
       ELSE artifact[v]]
  /\ noted' = Append(noted, round)
  /\ UNCHANGED <<file, revision, doc, parted>>

PlanNext ==
  \/ \E c \in Revisions :
       \/ CreateInitial(c) \/ WriteFile(c) \/ Record(c) \/ RevisionFails(c)
       \/ \E note \in Notes : Revise(c, note)
  \/ \E from, to \in Used : Move(from, to) \/ bumpIteration(from, to)
  \/ \E v \in Versions, status \in Used : markStatus(v, status)
  \/ \E round \in Rounds : appendIterationNote(round)

PlanSpec == PlanInit /\ [][PlanNext]_planVars

-----------------------------------------------------------------------------
(* Rows, files and calls are of the kinds the code knows. *)
PlanTypeOK ==
  /\ \A v \in Versions :
       /\ artifact[v] # Absent =>
            artifact[v].status \in Statuses /\ artifact[v].iteration \in Nat \ {0}
       /\ file[v] \in [written : BOOLEAN, content : Contents] /\ doc[v] \in Contents
  /\ revision \in [Revisions -> [pc : {"idle", "revising", "uploading"},
                                 version : 0 .. MaxVersion, content : Contents]]
  /\ noted \in Seq(Rounds) /\ parted \subseteq {"notes", "rows"} /\ steps \in 0 .. MaxSteps

(***************************************************************************)
(* No note of an execution is lost and every version carries them all, for *)
(* any order of calls, unless a revision recorded its version after a      *)
(* note: that version's array is empty, and the next append writes it over *)
(* the others' (appendIterationNote). And what is expected, moved and      *)
(* counted is the same in all versions, unless a version was recorded      *)
(* after another had changed, or markStatus() was called for one version.  *)
(***************************************************************************)
VersionsMoveTogether ==
  /\ "notes" \notin parted => \A v \in Recorded : artifact[v].notes = noted
  /\ "rows" \notin parted => \A v, w \in Recorded : artifact[v] = artifact[w]

(***************************************************************************)
(* The versions recorded are 1 .. N, however revisions overlap, each with  *)
(* the document it was made of, and a version's row is never replaced.     *)
(***************************************************************************)
VersionsAreKept ==
  [][Recorded \subseteq Recorded' /\ Recorded' = 1 .. Cardinality(Recorded')
     /\ \A v \in Recorded : doc'[v] = doc[v]]_planVars

=============================================================================
