--------------------------- MODULE ControlActions ---------------------------
(***************************************************************************)
(* Control actions of src/core/control: rows of interventions that an      *)
(* operator's command or a workflow leaves, and ControlActionProcessor,    *)
(* which hands a pending one to the handler of its type and writes what    *)
(* became of it.  Several process() calls of one action may be under way:  *)
(* a command runs one for its own action, /runtime approve for any.        *)
(*                                                                         *)
(* process() runs alone up to the handler's await and again from the       *)
(* handler's answer.  The row and the event are two writes: either can     *)
(* throw, and the process can end between them.  The try covers the row    *)
(* and the event of a success as well as the handler.                      *)
(***************************************************************************)
EXTENDS Naturals

CONSTANTS
  Actions,       \* control action ids
  Calls,         \* calls of process()
  Commands,      \* the types of the actions that commands create
  Wired,         \* the action types the processor was given a handler for
  NoAction

VARIABLES
  action,        \* control_actions: status, type and the payload's fields
  call,          \* where a call of process() stands, and its action
  emitted,       \* the control_action.* events, by the fixed id of each
  handled,       \* history: the actions some handler has completed
  silent         \* history: the actions with a write that threw or was cut off by a death

controlVars == <<action, call, emitted, handled, silent>>

(* The fields that the schema of each type requires to be non-empty. *)
actionTypeSchemas ==
  [approve_step      |-> {"stepStateId"},
   reject_step       |-> {"stepStateId", "reason"},
   resume_workflow   |-> {"workflowInstanceId"},
   cancel_workflow   |-> {"workflowInstanceId"},
   trigger_recovery  |-> {"workflowInstanceId"},
   confirm_memory    |-> {"memoryId"},
   delete_memory     |-> {"memoryId"},
   bind_workspace    |-> {"workspaceId", "conversationId"},
   register_provider |-> {"providerId", "label", "command"},
   disable_provider  |-> {"providerId"},
   update_policy     |-> {"workspaceId", "policyId", "rule"},
   pause_schedule    |-> {"scheduleId"},
   resume_schedule   |-> {"scheduleId"},
   revoke_memory     |-> {"memoryId"},
   approve_recovery  |-> {"recoveryId"},
   reject_recovery   |-> {"recoveryId"}]

ActionTypes == DOMAIN actionTypeSchemas
Fields      == {"artifactId"} \cup UNION {actionTypeSchemas[t] : t \in ActionTypes}
Statuses    == {"absent", "pending", "completed", "failed"}
ActionRows  == [status : Statuses, type : ActionTypes \cup {"none"}, payload : SUBSET Fields]
EventTypes  == {"processing_started", "processing_failed", "completed", "failed"}

parsePayload(type, payload) == type \in ActionTypes /\ actionTypeSchemas[type] \subseteq payload

ControlInit ==
  /\ action = [a \in Actions |-> [status |-> "absent", type |-> "none", payload |-> {}]]
  /\ call = [c \in Calls |-> [pc |-> "idle", action |-> NoAction]]
  /\ emitted = {} /\ handled = {} /\ silent = {}

-----------------------------------------------------------------------------
Pending(type, payload) == [status |-> "pending", type |-> type, payload |-> payload]

Go(c, a, pc) == call' = [call EXCEPT ![c] = [pc |-> pc, action |-> a]]

(* The row as it is once a call read it and before it awaits its handler; a  *)
(* throw of the event's write leaves process().                              *)
Process(c, a, row) ==
  LET parsed == parsePayload(row.type, row.payload) IN
  /\ action' = [action EXCEPT ![a] = IF parsed THEN row ELSE [row EXCEPT !.status = "failed"]]
  /\ \/ /\ emitted' = emitted \cup {<<a, IF parsed THEN "processing_started" ELSE "processing_failed">>}
        /\ Go(c, a, IF parsed THEN "inHandler" ELSE "done")
        /\ UNCHANGED silent
     \/ /\ silent' = silent \cup {a}
        /\ Go(c, a, "done")
        /\ UNCHANGED emitted

(* Mutant: the status that was read is not looked at. *)
ProcessStoredAnyStatus(c, a) ==
  /\ call[c].pc = "idle" /\ action[a].status # "absent"
  /\ Process(c, a, action[a])
  /\ UNCHANGED handled

(* process() of an action that is missing or settled returns at once. *)
ProcessStored(c, a) ==
  /\ call[c].pc = "idle" /\ action[a].status = "pending"
  /\ Process(c, a, action[a])
  /\ UNCHANGED handled

(* /runtime cancel, resume, memory approve, memory reject and recover. *)
CommandTypes == {"cancel_workflow", "resume_workflow", "confirm_memory", "delete_memory",
                 "trigger_recovery"}

ASSUME CommandAssumption == Commands \subseteq CommandTypes /\ Wired \subseteq ActionTypes

(* A command creates its action and processes it in the same turn. *)
Command(c, a, type) ==
  /\ call[c].pc = "idle" /\ action[a].status = "absent"
  /\ Process(c, a, Pending(type, actionTypeSchemas[type]))
  /\ UNCHANGED handled

-----------------------------------------------------------------------------
(* updateStatus writes whatever the status has become meanwhile. *)
UpdateStatus(a, status) == action' = [action EXCEPT ![a].status = status]

Returns(c) == Go(c, call[c].action, "done")

HandlerSucceeds(c) ==
  LET a == call[c].action IN
  /\ call[c].pc = "inHandler" /\ action[a].type \in Wired
  /\ UpdateStatus(a, "completed")
  /\ emitted' = emitted \cup {<<a, "completed">>}
  /\ handled' = handled \cup {a}
  /\ Returns(c) /\ UNCHANGED silent

(* Mutant: no event tells of a failure. *)
HandlerFailsUntold(c) ==
  LET a == call[c].action IN
  /\ call[c].pc = "inHandler"
  /\ UpdateStatus(a, "failed")
  /\ Returns(c)
  /\ UNCHANGED <<handled, silent, emitted>>

(* The handler throws, or there is none of that type. *)
HandlerFails(c) ==
  LET a == call[c].action IN
  /\ call[c].pc = "inHandler"
  /\ UpdateStatus(a, "failed")
  /\ emitted' = emitted \cup {<<a, "failed">>}
  /\ Returns(c)
  /\ UNCHANGED <<handled, silent>>

(* The handler has completed, and the row or the event of that throws. *)
SuccessThrows(c) ==
  LET a == call[c].action IN
  /\ call[c].pc = "inHandler" /\ action[a].type \in Wired
  /\ UpdateStatus(a, "failed")
  /\ emitted' = emitted \cup {<<a, "failed">>}
  /\ handled' = handled \cup {a} /\ silent' = silent \cup {a}
  /\ Returns(c)

(* What is left of a call cut short before its event: its row may be written. *)
CutShort(a) ==
  /\ \/ UNCHANGED handled
     \/ action[a].type \in Wired /\ handled' = handled \cup {a}
  /\ \/ UNCHANGED action \/ UpdateStatus(a, "failed")
     \/ UpdateStatus(a, "completed") /\ a \in handled'
  /\ silent' = silent \cup {a}
  /\ UNCHANGED emitted

(* A write of the catch throws, out of process(). *)
CatchThrows(c) == call[c].pc = "inHandler" /\ CutShort(call[c].action) /\ Returns(c)

(* The calls of a process that dies are gone; their rows stay. *)
CallsDie == call' = [c \in Calls |-> [call[c] EXCEPT !.pc = IF @ = "idle" THEN "idle" ELSE "done"]]

DieBeforeEvent(c) == call[c].pc = "inHandler" /\ CutShort(call[c].action) /\ CallsDie

(* What a call does once it awaits its handler, the end of the process apart. *)
CallStep(c) == HandlerSucceeds(c) \/ HandlerFails(c) \/ SuccessThrows(c) \/ CatchThrows(c)
=============================================================================
