--------------------------- MODULE MemoryRecords ---------------------------
(***************************************************************************)
(* The governed memory of src/core/memory: MemoryService checks status and *)
(* policy, MemoryStore writes the row and then its audit history.          *)
(*                                                                         *)
(* Nothing in the code sets expires_at, so expireOlderThan finds no row    *)
(* and is left out; so are texts and confidence.               *)
(***************************************************************************)
EXTENDS Sequences

CONSTANTS
  Memories,
  Scopes     \* the scopes memories are proposed for

VARIABLES
  memory,   \* memory_records: status and scope
  history,  \* memory_record_history: what each entry changed, oldest first
  torn      \* history: the rows whose entry a death of the process cut off

memoryVars == <<memory, history, torn>>

MEMORY_SCOPES   == {"system", "workspace", "project", "conversation", "session", "user", "run"}
MEMORY_STATUSES == {"pending_approval", "active", "rejected", "revoked"}
Ephemeral       == {"run", "session"}
ASSUME ScopeAssumption == Scopes \subseteq MEMORY_SCOPES

MemoryRows      == [status : MEMORY_STATUSES \cup {"absent"}, scope : MEMORY_SCOPES \cup {"none"}]
NoMemory        == [status |-> "absent", scope |-> "none"]

MemoryInit ==
  /\ memory = [m \in Memories |-> NoMemory]
  /\ history = [m \in Memories |-> << >>]
  /\ torn = {}

(* The scopes that a search at a scope sees. *)
SCOPE_HIERARCHY ==
  [run |-> {"run"}, session |-> {"session", "run"}, user |-> {"user"},
   conversation |-> {"conversation", "session", "run"},
   project |-> {"project", "conversation", "session", "run"},
   workspace |-> {"workspace", "project"}, system |-> MEMORY_SCOPES]

listActive(scopes)  == {m \in Memories : memory[m].status = "active" /\ memory[m].scope \in scopes}
searchActive(scope) == listActive(SCOPE_HIERARCHY[scope])

-----------------------------------------------------------------------------
RecordHistory(m, from, to) ==
  /\ history' = [history EXCEPT ![m] = Append(@, [from |-> from, to |-> to])]
  /\ UNCHANGED torn

LoseHistory(m) == torn' = torn \cup {m} /\ UNCHANGED history

(* Mutant: what an agent proposes is active at once in every scope. *)
CandidateStatusActive(scope) == "active"
CandidateStatus(scope) == IF scope \in Ephemeral THEN "active" ELSE "pending_approval"

(* createCandidate: the primary key refuses a second row of the id. *)
CreateCandidate(m, scope) ==
  /\ memory[m] = NoMemory
  /\ memory' = [memory EXCEPT ![m] = [status |-> CandidateStatus(scope), scope |-> scope]]

(* The transitions MemoryService lets through, whatever policy allows it. *)
Allowed(from, to) ==
  \/ from = "pending_approval" /\ to \in {"active", "rejected"}
  \/ from \in {"pending_approval", "active", "rejected"} /\ to = "revoked"

SetStatus(m, to) ==
  /\ Allowed(memory[m].status, to)
  /\ memory' = [memory EXCEPT ![m].status = to]

(* propose(), approve(), reject(), revoke() of an operator or an agent. *)
Propose(m, scope) == CreateCandidate(m, scope) /\ RecordHistory(m, "none", CandidateStatus(scope))
Decide(m, to)     == SetStatus(m, to) /\ RecordHistory(m, memory[m].status, to)

(* delete() takes the history with it (on delete cascade). *)
Delete(m) ==
  /\ memory[m] # NoMemory
  /\ memory' = [memory EXCEPT ![m] = NoMemory]
  /\ history' = [history EXCEPT ![m] = << >>]
  /\ torn' = torn \ {m}

(* The process dies between the row and its history. *)
WriteAndDie(m) ==
  /\ \/ \E scope \in Scopes : CreateCandidate(m, scope)
     \/ \E to \in MEMORY_STATUSES : SetStatus(m, to)
  /\ LoseHistory(m)
=============================================================================
