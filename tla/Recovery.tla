------------------------------ MODULE Recovery ------------------------------
(***************************************************************************)
(* The recovery workflow of src/core/recovery, over the control actions,   *)
(* memory and artifacts it writes and the rules of the workflow runtime    *)
(* (module WorkflowRuntime) that it runs under: skip_if_running, one       *)
(* approval wait, resume() with a signal.                                  *)
(*                                                                         *)
(* Several recoveries may be asked for the same failed attempt: they share *)
(* the ids of the artifact, the control action and the memory, which the   *)
(* code builds from the attempt's.                                         *)
(***************************************************************************)
EXTENDS ControlActions, MemoryRecords, Artifacts

CONSTANTS
  MaxCommands,     \* bound on what operators, the clock and the end of the process do
  Failures,        \* the errors that recoveries are started with
  Recoveries,      \* instances of core.recovery.workflow
  DiagOf,          \* the artifact id "diag_<attempt>" of a recovery
  ControlOf,       \* the control action id "ctrl_recovery_<artifact>"
  MemoryOf         \* the memory id "mem_rec_<artifact>"

RecoveryActions == {ControlOf[r] : r \in Recoveries}

ASSUME RecoveryAssumption ==
  /\ DiagOf \in [Recoveries -> ArtifactIds]
  /\ ControlOf \in [Recoveries -> Actions]
  /\ MemoryOf \in [Recoveries -> Memories]
  /\ MaxCommands \in Nat
  /\ NoArtifact \notin ArtifactIds /\ NoAction \notin Actions

VARIABLES
  step,       \* the step a recovery is at, or the end it came to
  failure,    \* the error it was started with
  proposal,   \* the action that propose_recovery chose
  left,       \* the recoveries whose attempt row was left at waiting
  signalled,  \* history: the recoveries resumed by a signal
  commands    \* how many commands and deaths there have been

recoveryVars == <<step, failure, proposal, left, signalled>>
vars         == <<controlVars, memoryVars, artifactVars, recoveryVars, commands>>

Categories == {"platform_input", "permission", "routing", "precondition", "capability",
               "agent_process", "agent_protocol", "persistence", "rendering", "timeout",
               "validation", "unknown"}
Errors     == [category : Categories, recoverable : BOOLEAN]

ASSUME FailureAssumption == Failures \subseteq Errors

NoError    == [category |-> "none", recoverable |-> FALSE]
Sections   == {"collect", "insert", "classify", "search", "propose", "approve",
               "execute", "record"}
Ends       == {"new", "skipped", "waiting", "succeeded", "failed", "interrupted"}

classifyFailure(error) ==
  CASE error.category \in {"validation", "permission"}              -> "non_recoverable"
    [] error.category = "agent_process"                             -> "recoverable"
    [] error.category \notin {"validation", "permission"} /\ error.recoverable -> "recoverable"
    [] OTHER                                                        -> "unknown"

(* Mutant: a failure nobody understands is retried. *)
ProposalForAlwaysRetry(class) == IF class = "non_recoverable" THEN "none" ELSE "retry"
ProposalFor(class) ==
  CASE class = "non_recoverable" -> "none"
    [] class = "recoverable"     -> "retry"
    [] class = "unknown"         -> "request_approval"

Init ==
  /\ ControlInit /\ MemoryInit /\ ArtifactInit
  /\ step = [r \in Recoveries |-> "new"]
  /\ failure = [r \in Recoveries |-> NoError]
  /\ proposal = [r \in Recoveries |-> "undecided"]
  /\ left = {} /\ signalled = {} /\ commands = 0

GoTo(r, s)      == step' = [step EXCEPT ![r] = s]
Advance(r, a, b) == step[r] = a /\ GoTo(r, b)

-----------------------------------------------------------------------------
(* Recoveries whose attempt row counts as running for skip_if_running. *)
Blocking == {r \in Recoveries : step[r] \in Sections} \cup left

Start(r) ==
  /\ step[r] = "new"
  /\ \E error \in Failures :
       /\ failure' = [failure EXCEPT ![r] = error]
       /\ GoTo(r, IF Blocking = {} THEN "collect" ELSE "skipped")
  /\ UNCHANGED <<controlVars, memoryVars, artifactVars, proposal, left, signalled>>

(* collect_diagnostics writes the bundle's file, then its row. *)
CollectFile(r) ==
  /\ Advance(r, "collect", "insert")
  /\ WriteFile(DiagOf[r])
  /\ UNCHANGED <<controlVars, memoryVars, failure, proposal, left, signalled>>

CollectRow(r) ==
  /\ Advance(r, "insert", "classify")
  /\ InsertRow(DiagOf[r])
  /\ UNCHANGED <<controlVars, memoryVars, failure, proposal, left, signalled>>

(* The bundle of an earlier recovery of the attempt has the id. *)
CollectFails(r) ==
  /\ row[DiagOf[r]] # "absent"
  /\ Advance(r, "insert", "failed")
  /\ UNCHANGED <<controlVars, memoryVars, artifactVars, failure, proposal, left, signalled>>

(* classify_failure and search_memory add to the input of the next step. *)
Classify(r) ==
  /\ Advance(r, "classify", "search") \/ Advance(r, "search", "propose")
  /\ UNCHANGED <<controlVars, memoryVars, artifactVars, failure, proposal, left, signalled>>

Propose_(r) ==
  /\ Advance(r, "propose", "approve")
  /\ proposal' = [proposal EXCEPT ![r] = ProposalFor(classifyFailure(failure[r]))]
  /\ UNCHANGED <<controlVars, memoryVars, artifactVars, failure, left, signalled>>

(* request_approval leaves a control action whose payload names the artifact.  *)
(* Its id is free: after the first wait no recovery is started any more.       *)
RequestApproval(r) ==
  LET a == ControlOf[r] IN
  /\ proposal[r] = "request_approval" /\ action[a].status = "absent"
  /\ action' = [action EXCEPT ![a] = Pending("trigger_recovery", {"artifactId", "reason"})]
  /\ Advance(r, "approve", "waiting")
  /\ left' = left \cup {r}
  /\ UNCHANGED <<call, emitted, handled, silent, memoryVars, artifactVars, failure, proposal, signalled>>

PassThrough(r) ==
  /\ proposal[r] # "request_approval"
  /\ Advance(r, "approve", "execute")
  /\ UNCHANGED <<controlVars, memoryVars, artifactVars, failure, proposal, left, signalled>>

(* A signal that names trigger_recovery; the attempt that waited keeps its row. *)
Resume(r) ==
  /\ Advance(r, "waiting", "execute")
  /\ signalled' = signalled \cup {r}
  /\ UNCHANGED <<controlVars, memoryVars, artifactVars, failure, proposal, left>>

Execute(r) ==
  /\ Advance(r, "execute", "record")
  /\ UNCHANGED <<controlVars, memoryVars, artifactVars, failure, proposal, left, signalled>>

(* record_memory: a candidate that cannot be created is passed over. *)
Record(r) ==
  LET m == MemoryOf[r] IN
  /\ Advance(r, "record", "succeeded")
  /\ IF memory[m] = NoMemory THEN Propose(m, "run") ELSE UNCHANGED memoryVars
  /\ UNCHANGED <<controlVars, artifactVars, failure, proposal, left, signalled>>

RecoveryStep(r) ==
  /\ \/ Start(r) \/ CollectFile(r) \/ CollectRow(r) \/ CollectFails(r) \/ Classify(r)
     \/ Propose_(r) \/ RequestApproval(r) \/ PassThrough(r) \/ Resume(r)
     \/ Execute(r) \/ Record(r)
  /\ UNCHANGED commands

-----------------------------------------------------------------------------
Counted == commands < MaxCommands /\ commands' = commands + 1

RecoveriesDie ==
  /\ step' = [r \in Recoveries |-> IF step[r] \in Sections THEN "interrupted" ELSE step[r]]
  /\ UNCHANGED <<failure, proposal, left, signalled>>

(* The process dies: calls, passes and recoveries end where they are. *)
Death ==
  /\ Counted
  /\ \/ CallsDie /\ UNCHANGED <<action, emitted, handled, silent, memoryVars>>
     \/ \E c \in Calls : DieBeforeEvent(c) /\ UNCHANGED memoryVars
     \/ \E m \in Memories : WriteAndDie(m) /\ CallsDie /\ UNCHANGED <<action, emitted, handled, silent>>
  /\ PassDies /\ RecoveriesDie
  /\ UNCHANGED <<row, pinned, aged, file, spared>>

Operate ==
  /\ Counted
  /\ \/ \E c \in Calls, a \in Actions : ProcessStored(c, a)
     \/ \E c \in Calls, a \in Actions \ RecoveryActions, t \in Commands : Command(c, a, t)
  /\ UNCHANGED <<memoryVars, artifactVars, recoveryVars>>

Handle ==
  /\ \E c \in Calls : CallStep(c)
  /\ UNCHANGED <<memoryVars, artifactVars, recoveryVars, commands>>

Govern ==
  /\ Counted
  /\ \/ \E m \in Memories, scope \in Scopes : Propose(m, scope)
     \/ \E m \in Memories, to \in MEMORY_STATUSES : Decide(m, to)
     \/ \E m \in Memories : Delete(m)
  /\ UNCHANGED <<controlVars, artifactVars, recoveryVars>>

Retain ==
  /\ \/ ArtifactCommand /\ Counted
     \/ PassStep /\ UNCHANGED commands
  /\ UNCHANGED <<controlVars, memoryVars, recoveryVars>>

Next == (\E r \in Recoveries : RecoveryStep(r)) \/ Death \/ Operate \/ Handle \/ Govern \/ Retain

Spec == Init /\ [][Next]_vars

-----------------------------------------------------------------------------
(* Rows, calls and recoveries are in the states the code knows. *)
TypeOK ==
  /\ action \in [Actions -> ActionRows]
  /\ call \in [Calls -> [pc : {"idle", "inHandler", "done"}, action : Actions \cup {NoAction}]]
  /\ emitted \subseteq Actions \X EventTypes /\ handled \cup silent \subseteq Actions
  /\ memory \in [Memories -> MemoryRows]
  /\ torn \subseteq Memories
  /\ row \in [ArtifactIds -> RowStates]
  /\ pinned \cup aged \cup file \cup spared \subseteq ArtifactIds
  /\ pass \in [kind : PassKinds \cup {"none"}, todo : SUBSET ArtifactIds,
               at : ArtifactIds \cup {NoArtifact}]
  /\ step \in [Recoveries -> Sections \cup Ends]
  /\ proposal \in [Recoveries -> {"undecided", "none", "retry", "request_approval"}]
  /\ failure \in [Recoveries -> Errors \cup {NoError}]
  /\ left \cup signalled \subseteq Recoveries /\ commands \in 0 .. MaxCommands

(***************************************************************************)
(* An action that has its verdict, with no other call of process() in its  *)
(* handler, keeps it and is never handed to a handler again.               *)
(***************************************************************************)
Settled(a) ==
  /\ action[a].status \in {"completed", "failed"}
  /\ \A c \in Calls : call[c].pc = "inHandler" => call[c].action # a
VerdictStays == [][\A a \in Actions : Settled(a) => action'[a] = action[a] /\ Settled(a)']_vars

Told(a, type) == <<a, type>> \in emitted

TrueOf(a) ==
  /\ action[a].status = "completed" \/ Told(a, "completed") => a \in handled
  /\ a \in handled => Told(a, "processing_started")
  /\ Told(a, "processing_failed") => action[a].status = "failed" /\ a \notin handled
  /\ a \notin silent =>
       /\ a \in handled => Told(a, "completed")
       /\ action[a].status = "failed" => Told(a, "failed") \/ Told(a, "processing_failed")

(***************************************************************************)
(* A completed action has had its effect, no handler is called unannounced,*)
(* and one that is refused before has had none. Unless a write threw or    *)
(* was cut off by a death, the log tells of every effect, also where a     *)
(* call beside it wrote its failure over the row, and of every failure.    *)
(***************************************************************************)
ActionsAreTrue == \A a \in Actions : TrueOf(a)

(***************************************************************************)
(* A search at any scope finds no memory of a durable scope that nobody    *)
(* approved, and the history leads to the status, entry by entry, except   *)
(* where a death cut it off.                                               *)
(***************************************************************************)
MemoryIsGoverned ==
  \A m \in Memories : m \notin torn =>
    LET h == history[m] IN
    /\ memory[m].status = "absent" <=> h = << >>
    /\ h # << >> => h[1].from = "none" /\ h[Len(h)].to = memory[m].status
    /\ \A i \in 2 .. Len(h) : h[i].from = h[i - 1].to
    /\ memory[m].scope \notin Ephemeral /\ (\E s \in MEMORY_SCOPES : m \in searchActive(s)) =>
         [from |-> "pending_approval", to |-> "active"] \in {h[i] : i \in 1 .. Len(h)}

(***************************************************************************)
(* No recovery of an unknown failure goes past its approval without a      *)
(* signal, one that waits has its control action, and at most one recovery *)
(* is at work.                                                             *)
(***************************************************************************)
RecoveryIsApproved ==
  /\ \A r \in Recoveries :
       /\ step[r] \in {"execute", "record", "succeeded"}
            /\ classifyFailure(failure[r]) = "unknown" => r \in signalled
       /\ step[r] = "waiting" => action[ControlOf[r]].status # "absent"
  /\ Cardinality({r \in Recoveries : step[r] \in Sections \cup {"waiting"}}) <= 1

(***************************************************************************)
(* An artifact that was pinned before a retention pass read its list       *)
(* keeps its row and its file.                                             *)
(***************************************************************************)
PinnedIsKept ==
  [][\A a \in spared : row[a] = "live" =>
       row'[a] = "live" /\ (a \in file => a \in file')]_vars

=============================================================================
